---- MODULE Spec2Model ----
(***************************************************************************)
(* Model of the job/page pipeline of liza_codex_pdf (web.py): the job      *)
(* thread (_process_job, _run_ocr_attempts_for_page), the single-worker    *)
(* verification pool (_verify_page_worker), the job state table guarded by *)
(* _JOBS_LOCK, and a status reader (_get_job_snapshot).                    *)
(***************************************************************************)
EXTENDS Integers, Sequences, FiniteSets, TLC

\* ------------------------------------------------------------------ bounds
MaxPages == 2
\* External invocations that fail in one run of the job.
MaxFailures == 1
\* The largest number of pages of a document whose job is polled.
MaxSnapshotPages == 1
\* The largest character or token count of a text analysed on its own.
MaxCount == 3
\* The longest list of word boxes deduplicated on its own.
MaxBoxes == 3
\* The longest list of word boxes prepared for the overlay on its own.
MaxOverlayBoxes == 3
\* The largest coordinate and extent of a box mapped back from a rotated
\* image on its own; the image is at most one pixel larger.
MaxCoord == 3
\* How far from a threshold of the rescue and review rules the scores and
\* word counts of the decisions made on their own lie.
Margin == 1

\* ------------------------------------------------------- pure functions

\* Text statistics of one OCR candidate, as _analyze_ocr_pdf counts them.
Text(alnum, tokens, eng, numeric) ==
    [alnum_chars |-> alnum, tokens |-> tokens, eng_tokens |-> eng,
     numeric_tokens |-> numeric]

WeakText   == Text(40, 10, 0, 2)
MediumText == Text(250, 40, 6, 10)
StrongText == Text(600, 100, 20, 30)

\* A variant that leaves the engineering tokens out of the score.
_analyze_ocr_pdf_no_eng(text) ==
    [score               |-> text.alnum_chars + (2 * text.tokens),
     alnum_chars         |-> text.alnum_chars,
     token_count         |-> text.tokens,
     eng_token_count     |-> text.eng_tokens,
     numeric_token_count |-> text.numeric_tokens]

_analyze_ocr_pdf(text) ==
    [score               |-> text.alnum_chars + (2 * text.tokens) + (5 * text.eng_tokens),
     alnum_chars         |-> text.alnum_chars,
     token_count         |-> text.tokens,
     eng_token_count     |-> text.eng_tokens,
     numeric_token_count |-> text.numeric_tokens]

\* A variant with the weights of the two modes exchanged.
_candidate_selection_score_swapped(analysis, drawing_mode) ==
    IF ~drawing_mode
    THEN analysis.score + (65 * analysis.eng_token_count)
         + (30 * analysis.numeric_token_count) + (2 * analysis.token_count)
    ELSE analysis.score + (20 * analysis.eng_token_count)
         + (8 * analysis.numeric_token_count)

_candidate_selection_score(analysis, drawing_mode) ==
    IF drawing_mode
    THEN analysis.score + (65 * analysis.eng_token_count)
         + (30 * analysis.numeric_token_count) + (2 * analysis.token_count)
    ELSE analysis.score + (20 * analysis.eng_token_count)
         + (8 * analysis.numeric_token_count)

\* The profile names, in configured order.
_build_page_profiles(s) ==
    IF ~s.drawing_mode THEN <<"standard">>
    ELSE <<"draw-sparse-a", "draw-lines-b", "draw-grid-c">>

_build_rescue_profile(s) ==
    IF s.drawing_mode THEN "draw-rescue" ELSE "standard-rescue"

_build_secondary_rescue_profile(s) ==
    IF s.drawing_mode THEN "draw-rescue-2" ELSE "standard-rescue-2"

\* gain_ratio is the float (tile - full) / max(full, 1); it is kept as the
\* exact fraction <<numerator, denominator>> and compared by cross
\* multiplication.
Max(a, b) == IF a >= b THEN a ELSE b
Min(a, b) == IF a <= b THEN a ELSE b

NoCoverage ==
    [full_words |-> 0, tile_words |-> 0, combined_words |-> 0,
     gain_ratio |-> <<0, 1>>, vertical_words |-> 0, table_words |-> 0,
     boxes |-> 0]

\* What the word detector found on a page: the sizes of the deduplicated
\* full / tile / vertical / table sets and of their deduplicated union.
\* lines: the lines the plain-text rescue scan reads; overlay_words: the boxes
\* _prepare_overlay_words keeps.
Detected(full, tile, vertical, table, combined, lines, overlay_words) ==
    [full |-> full, tile |-> tile, vertical |-> vertical, table |-> table,
     combined |-> combined, lines |-> lines, overlay_words |-> overlay_words]

RichScan == Detected(150, 160, 10, 5, 200, 25, 180)
\* A page on which the counts just reach what clears a review flag.
EdgeScan == Detected(100, 110, 5, 5, 120, 20, 120)
PoorScan == Detected(10, 12, 0, 0, 30, 0, 20)

_scan_page_coverage(d, drawing_mode) ==
    LET full_words == d.full
        tile_words == IF drawing_mode THEN d.tile ELSE 0
    IN  [full_words     |-> full_words,
         tile_words     |-> tile_words,
         combined_words |-> IF drawing_mode THEN d.combined ELSE d.full,
         gain_ratio     |-> IF tile_words > full_words
                            THEN <<tile_words - full_words, Max(full_words, 1)>>
                            ELSE <<0, 1>>,
         vertical_words |-> IF drawing_mode THEN d.vertical ELSE 0,
         table_words    |-> IF drawing_mode THEN d.table ELSE 0,
         boxes          |-> IF drawing_mode THEN d.combined ELSE d.full]

\* dict.get(key, default)
Get(d, key, default) == IF key \in DOMAIN d THEN d[key] ELSE default

\* A variant in which a high score triggers the rescue pass.
_should_run_rescue_pass_high_score(analysis, coverage, s) ==
    IF ~s.deep_verify THEN FALSE
    ELSE IF s.drawing_mode
    THEN \/ analysis.score > 420
         \/ analysis.eng_token_count < 8 /\ Get(coverage, "tile_words", 0) >= 25
         \/ Get(coverage, "combined_words", Get(coverage, "tile_words", 0)) < 55
    ELSE analysis.score > 120

\* A variant without the rule on the gain of the tiled pass.
_should_run_rescue_pass_no_gain(analysis, coverage, s) ==
    IF ~s.deep_verify THEN FALSE
    ELSE IF s.drawing_mode
    THEN \/ analysis.score < 420
         \/ analysis.eng_token_count < 8 /\ Get(coverage, "tile_words", 0) >= 25
         \/ Get(coverage, "combined_words", Get(coverage, "tile_words", 0)) < 55
    ELSE analysis.score < 120

_should_run_rescue_pass(analysis, coverage, s) ==
    IF ~s.deep_verify THEN FALSE
    ELSE IF s.drawing_mode
    THEN LET full_words == Get(coverage, "full_words", 0)
             tile_words == Get(coverage, "tile_words", 0)
             combined_words == Get(coverage, "combined_words", tile_words)
             gain_ratio == Get(coverage, "gain_ratio", <<0, 1>>)
             tile_bonus == tile_words - full_words
         IN  \/ analysis.score < 420
             \/ analysis.eng_token_count < 8 /\ tile_words >= 25
             \/ combined_words < 55
             \/ /\ tile_bonus >= 30
                /\ gain_ratio[1] * 100 >= 35 * gain_ratio[2]
                /\ analysis.score < 700
    ELSE analysis.score < 120

\* A variant without the rule on the combined words.
_needs_manual_review_no_combined(analysis, coverage, s) ==
    IF s.drawing_mode
    THEN \/ analysis.score < 260
         \/ analysis.eng_token_count < 6 /\ Get(coverage, "tile_words", 0) < 20
    ELSE analysis.score < 120

_needs_manual_review(analysis, coverage, s) ==
    IF s.drawing_mode
    THEN LET tile_words == Get(coverage, "tile_words", 0)
             combined_words == Get(coverage, "combined_words", tile_words)
             gain_ratio == Get(coverage, "gain_ratio", <<0, 1>>)
         IN  \/ analysis.score < 260
             \/ analysis.eng_token_count < 6 /\ tile_words < 20
             \/ combined_words < 40
             \/ /\ gain_ratio[1] * 10 > 12 * gain_ratio[2]
                /\ combined_words < 120
    ELSE analysis.score < 120


\* ------------------------------------------------------------------ state

VARIABLES
    input_pages,        \* number of pages of input_pdf
    settings,           \* the job settings: drawing_mode, deep_verify
    ocr_texts,          \* texts the OCR primitive can produce for this input
    scans,              \* what the word detector can find on a page
    upload_cleanup_dir, \* TRUE while the upload directory exists
    job,                \* the JobState record of _JOBS
    lock,               \* owner of _JOBS_LOCK: "free", "job" or "reader"
    pc,                 \* position of the job thread in _process_job
    current_page,       \* _process_job's current_page
    verified_page,      \* page_number of the future the as_completed loop handles
    attempt_idx,        \* attempt index in _run_ocr_attempts_for_page
    attempts,           \* its attempts list
    best,               \* its best candidate / profile / analysis / score
    raised,             \* TRUE while an exception propagates in the job thread
    verify_queue,       \* work items submitted to verify_pool, not yet started
    futures,            \* page number -> the future of its verification
    yielded,            \* futures as_completed has handed to the loop
    page_outputs,       \* dict page number -> final page output, as the
                        \* sequence of its <<key, value>> items in insertion order
    worker,             \* the pool's worker process running _verify_page_worker
    temp_dir,           \* TRUE while the job's temporary page directory exists
    scan_dirs,          \* pages whose scan directory exists
    output_pdf,         \* the page outputs written to output_pdf by the merge
    reader,             \* position of a status request in _get_job_snapshot
    failed,             \* invocations that failed: {[page, call, kind]}
    calc                \* a function of web.py applied on its own: its name,
                        \* argument and, once it has returned, its result

configVars == <<input_pages, settings, ocr_texts, scans, calc>>
tableVars  == <<job, lock>>
threadVars == <<pc, current_page, verified_page, attempt_idx, attempts, best, raised, yielded,
                page_outputs>>
poolVars   == <<verify_queue, futures, worker, scan_dirs>>
dirVars    == <<upload_cleanup_dir, temp_dir, output_pdf>>
readerVars == <<reader>>

vars == <<input_pages, settings, ocr_texts, scans, upload_cleanup_dir, job,
          lock, pc, current_page, verified_page,
          attempt_idx, attempts, best, raised,
          verify_queue, futures, yielded, page_outputs, worker, temp_dir,
          scan_dirs, output_pdf, reader, failed, calc>>

\* Python's None for an optional value: the empty sequence; Some(x) is <<x>>.
\* A failed invocation: page 0 stands for the whole document.
Failure(page, call, kind) == [page |-> page, call |-> call, kind |-> kind]

\* An invocation can fail while fewer than MaxFailures have failed.
CanFail == Cardinality(failed) < MaxFailures

None == <<>>
Some(x) == <<x>>

Pages == 1 .. input_pages

\* JobState(job_id, status="queued", output_pdf=...)
_create_job ==
    [status |-> "queued", total_pages |-> 0, completed_pages |-> <<>>,
     error |-> FALSE, page_details |-> <<>>]

NewPageDetail(page_number, attempts_total) ==
    [page |-> page_number, status |-> "pending", attempts_done |-> 0,
     attempts_total |-> attempts_total, current_profile |-> "",
     best_profile |-> "", best_score |-> 0, best_selection_score |-> 0,
     needs_review |-> FALSE, attempt_history |-> <<>>,
     scan_full_words |-> 0, scan_tile_words |-> 0,
     scan_gain_ratio |-> <<0, 1>>, scan_vertical_words |-> 0,
     table_rescue_words |-> 0, augmented_words |-> 0, fallback_lines |-> 0,
     review_image_path |-> ""]

_init_page_details(j, total_pages, attempts_total) ==
    [j EXCEPT !.page_details =
        [page_number \in 1 .. total_pages |->
            NewPageDetail(page_number, attempts_total)]]

\* _update_page_detail: the fields of `update` overwrite those of the record of
\* page_number; a page number outside the table is ignored.
_update_page_detail(j, page_number, update) ==
    IF page_number < 1 \/ page_number > Len(j.page_details) THEN j
    ELSE [j EXCEPT !.page_details[page_number] =
            [k \in DOMAIN @ |-> IF k \in DOMAIN update THEN update[k] ELSE @[k]]]

\* completed_pages.append(page_number); completed_pages.sort()
RECURSIVE SortedInsert(_, _)
SortedInsert(seq, x) ==
    IF seq = <<>> THEN <<x>>
    ELSE IF x <= Head(seq) THEN <<x>> \o seq
    ELSE <<Head(seq)>> \o SortedInsert(Tail(seq), x)

\* A variant that appends without sorting.
_mark_page_completed_unsorted(j, page_number) ==
    IF \E i \in DOMAIN j.completed_pages : j.completed_pages[i] = page_number
    THEN j
    ELSE [j EXCEPT !.completed_pages = Append(@, page_number)]

_mark_page_completed(j, page_number) ==
    IF \E i \in DOMAIN j.completed_pages : j.completed_pages[i] = page_number
    THEN j
    ELSE [j EXCEPT !.completed_pages = SortedInsert(@, page_number)]

\* The locals of _run_ocr_attempts_for_page before the first attempt.
NoBest ==
    [candidate |-> None, profile |-> "",
     analysis |-> [score |-> -1, alnum_chars |-> 0, token_count |-> 0,
                   eng_token_count |-> 0, numeric_token_count |-> 0],
     selection_score |-> -1]

IdleWorker == [pc |-> "idle"]

\* A pool of two worker processes.
max_workers_two == 1 + 1

\* ProcessPoolExecutor(max_workers=1)
max_workers == 1
Workers == 1 .. max_workers

NoFuture == [state |-> "none", result |-> None]

\* The documents of the model: what OCR reads on their pages and what the word
\* detector finds on them.
Documents ==
    {[texts |-> {WeakText}, scans |-> {PoorScan}],
     [texts |-> {MediumText}, scans |-> {RichScan}],
     [texts |-> {StrongText}, scans |-> {RichScan}]}

\* No function is being applied on its own.
NoCalc == [fn |-> "", arg |-> None, out |-> None]

\* The job record, the thread, the pool and the directories of a job as
\* do_POST creates it, its thread not yet started.
FreshJob ==
    /\ job = _create_job
    /\ lock = "free"
    /\ pc = "start"
    /\ current_page = 0
    /\ verified_page = 0
    /\ attempt_idx = 0
    /\ attempts = <<>>
    /\ best = NoBest
    /\ raised = FALSE
    /\ verify_queue = <<>>
    /\ futures = [p \in Pages |-> NoFuture]
    /\ yielded = {}
    /\ page_outputs = <<>>
    /\ worker = [i \in Workers |-> IdleWorker]
    /\ temp_dir = FALSE
    /\ scan_dirs = {}
    /\ output_pdf = None
    /\ reader = "idle"
    /\ failed = {}

\* A job for one of the documents.
JobInit ==
    /\ input_pages \in 0 .. MaxPages
    /\ settings \in [drawing_mode : BOOLEAN, deep_verify : BOOLEAN]
    /\ \E doc \in Documents : ocr_texts = doc.texts /\ scans = doc.scans
    /\ upload_cleanup_dir \in BOOLEAN
    /\ FreshJob

Init == calc = NoCalc /\ JobInit

\* A job for a one-page document on which the OCR profiles read different
\* texts and the word detector can find much or little.
OnePageInit ==
    /\ calc = NoCalc
    /\ input_pages = 1
    /\ settings \in [drawing_mode : BOOLEAN, deep_verify : BOOLEAN]
    /\ ocr_texts = {WeakText, MediumText, StrongText}
    /\ scans = {PoorScan, EdgeScan, RichScan}
    /\ upload_cleanup_dir = TRUE
    /\ FreshJob

\* The state in which a function of web.py is applied on its own: the thread
\* of the job (of an empty upload) never starts.
IdleJob ==
    /\ JobInit
    /\ input_pages = 0
    /\ ocr_texts = {WeakText}
    /\ ~upload_cleanup_dir

\* A call of the function fn with the argument arg, not yet returned.
Call(fn, arg) == [fn |-> fn, arg |-> arg, out |-> None]

Calling(fn) == calc.fn = fn /\ calc.out = None
Returned(fn) == calc.fn = fn /\ calc.out # None

\* The call returns out; nothing of the job changes.
Return(out) ==
    /\ calc' = [calc EXCEPT !.out = Some(out)]
    /\ UNCHANGED <<input_pages, settings, ocr_texts, scans, tableVars, threadVars,
                   poolVars, dirVars, readerVars, failed>>


\* ------------------------------------------------------------- job thread

\* `with _JOBS_LOCK:` of the state-table operation the job thread is about to
\* run; threading.Lock blocks until the lock is free.
LockedPc ==
    {"start", "set_total", "init_pages", "attempt_update", "attempt_publish",
     "mark_verifying", "publish_done", "mark_completed", "verify_error",
     "except_page", "set_done", "except_job"}

JobAcquire ==
    /\ pc \in LockedPc
    /\ lock = "free"
    /\ lock' = "job"
    /\ UNCHANGED <<configVars, job, threadVars, poolVars, dirVars, readerVars, failed>>

\* A variant in which the job thread's operations return without releasing.
ReleaseLeak(owner) == IF owner = "job" THEN "job" ELSE "free"

\* The lock as the body of a `with _JOBS_LOCK:` block leaves it.
Release(owner) == "free"

\* _update_job(job_id, status="running", error="", total_pages=0, completed_pages=[])
JobStart ==
    /\ pc = "start" /\ lock = "job"
    /\ job' = [job EXCEPT !.status = "running", !.error = FALSE,
                          !.total_pages = 0, !.completed_pages = <<>>]
    /\ lock' = Release("job")
    /\ pc' = "split"
    /\ UNCHANGED <<configVars, current_page, verified_page, attempt_idx, attempts, best, raised,
                   yielded, page_outputs, poolVars, dirVars, readerVars, failed>>

\* tempfile.TemporaryDirectory() is entered and _split_pdf_into_pages runs: it
\* raises when pikepdf fails or when the input has no pages.
Split ==
    /\ pc = "split"
    /\ temp_dir' = TRUE
    /\ \/ /\ input_pages > 0
          /\ pc' = "set_total"
          /\ UNCHANGED <<raised, failed>>
       \/ /\ input_pages = 0      \* ValueError("Input PDF has no pages")
          /\ raised' = TRUE
          /\ pc' = "exit_temp_dir"
          /\ UNCHANGED failed
       \/ /\ CanFail
          /\ raised' = TRUE
          /\ failed' = failed \cup {Failure(0, "split", "PdfError")}
          /\ pc' = "exit_temp_dir"
    /\ UNCHANGED <<configVars, tableVars, current_page, verified_page, attempt_idx, attempts, best,
                   yielded, page_outputs, poolVars, upload_cleanup_dir, output_pdf,
                   readerVars>>

\* verify_attempt_budget and attempts_total of _process_job
AttemptsTotal(s) ==
    Len(_build_page_profiles(s))
    + (IF s.deep_verify THEN (IF s.drawing_mode THEN 2 ELSE 1) ELSE 0)

\* _update_job(job_id, total_pages=len(page_inputs))
SetTotal ==
    /\ pc = "set_total" /\ lock = "job"
    /\ job' = [job EXCEPT !.total_pages = input_pages]
    /\ lock' = Release("job")
    /\ pc' = "init_pages"
    /\ UNCHANGED <<configVars, current_page, verified_page, attempt_idx, attempts, best, raised,
                   yielded, page_outputs, poolVars, dirVars, readerVars, failed>>

\* _init_page_details(...); then the page loop starts with page 1 and
\* _run_ocr_attempts_for_page initialises its locals.
InitPages ==
    /\ pc = "init_pages" /\ lock = "job"
    /\ job' = _init_page_details(job, input_pages, AttemptsTotal(settings))
    /\ lock' = Release("job")
    /\ current_page' = 1
    /\ attempt_idx' = 1
    /\ attempts' = <<>>
    /\ best' = NoBest
    /\ pc' = "attempt_update"
    /\ UNCHANGED <<configVars, verified_page, raised, yielded, page_outputs, poolVars,
                   dirVars, readerVars, failed>>

\* A variant that leaves the status out of the update.
RunningUpdateNoStatus(idx, profile) ==
    [attempts_done |-> idx, current_profile |-> profile]

\* The update that announces an attempt (web.py 950-957).
RunningUpdate(idx, profile) ==
    [status |-> "running", attempts_done |-> idx, current_profile |-> profile]

AttemptUpdate ==
    /\ pc = "attempt_update" /\ lock = "job"
    /\ job' = _update_page_detail(job, current_page,
                RunningUpdate(attempt_idx, _build_page_profiles(settings)[attempt_idx]))
    /\ lock' = Release("job")
    /\ pc' = "run_ocr"
    /\ UNCHANGED <<configVars, current_page, verified_page, attempt_idx, attempts, best, raised,
                   yielded, page_outputs, poolVars, dirVars, readerVars, failed>>

AttemptInfo(idx, profile, analysis, selection_score) ==
    [attempt |-> idx, profile |-> profile, score |-> analysis.score,
     tokens |-> analysis.token_count, eng_tokens |-> analysis.eng_token_count,
     num_tokens |-> analysis.numeric_token_count,
     selection_score |-> selection_score]

\* A variant in which a candidate that only equals the best replaces it.
TrackBestOnTie(b, candidate, profile, analysis, selection_score) ==
    IF selection_score >= b.selection_score
    THEN [candidate |-> candidate, profile |-> profile, analysis |-> analysis,
          selection_score |-> selection_score]
    ELSE b

\* if selection_score > best_selection_score: the candidate becomes the best.
TrackBest(b, candidate, profile, analysis, selection_score) ==
    IF selection_score > b.selection_score
    THEN [candidate |-> candidate, profile |-> profile, analysis |-> analysis,
          selection_score |-> selection_score]
    ELSE b

\* run_ocr returns and the candidate is analysed and compared with the best.
RunOcrDone ==
    /\ pc = "run_ocr"
    /\ \E text \in ocr_texts :
        LET analysis == _analyze_ocr_pdf(text)
            profile == _build_page_profiles(settings)[attempt_idx]
            selection_score ==
                _candidate_selection_score(analysis, settings.drawing_mode)
        IN  /\ attempts' = Append(attempts,
                    AttemptInfo(attempt_idx, profile, analysis, selection_score))
            /\ best' = TrackBest(best, Some(<<current_page, "try", attempt_idx>>), profile,
                                 analysis, selection_score)
    /\ pc' = "attempt_publish"
    /\ UNCHANGED <<configVars, tableVars, current_page, verified_page, attempt_idx, raised, yielded,
                   page_outputs, poolVars, dirVars, readerVars, failed>>

\* run_ocr exits non-zero (subprocess.CalledProcessError): the exception leaves
\* the page loop and the `with ProcessPoolExecutor` block.
RunOcrFail ==
    /\ pc = "run_ocr"
    /\ CanFail
    /\ raised' = TRUE
    /\ failed' = failed \cup {Failure(current_page, "run_ocr", "CalledProcessError")}
    /\ pc' = "pool_exit"
    /\ UNCHANGED <<configVars, tableVars, current_page, verified_page, attempt_idx, attempts, best,
                   yielded, page_outputs, poolVars, dirVars, readerVars>>

\* The update after an attempt (web.py 1001-1008).
AttemptPublish ==
    /\ pc = "attempt_publish" /\ lock = "job"
    /\ job' = _update_page_detail(job, current_page,
                [attempt_history |-> attempts, best_score |-> best.analysis.score,
                 best_selection_score |-> best.selection_score,
                 best_profile |-> best.profile])
    /\ lock' = Release("job")
    /\ IF attempt_idx < Len(_build_page_profiles(settings))
       THEN /\ attempt_idx' = attempt_idx + 1
            /\ pc' = "attempt_update"
       ELSE /\ attempt_idx' = attempt_idx
            /\ pc' = "mark_verifying"
    /\ UNCHANGED <<configVars, current_page, verified_page, attempts, best, raised, yielded,
                   page_outputs, poolVars, dirVars, readerVars, failed>>


\* The update before the page is handed to the verification pool (848-855).
VerifyingUpdate(n_attempts) ==
    [status |-> "verifying", attempts_done |-> n_attempts,
     current_profile |-> "verify"]

MarkVerifying ==
    /\ pc = "mark_verifying" /\ lock = "job"
    /\ job' = _update_page_detail(job, current_page, VerifyingUpdate(Len(attempts)))
    /\ lock' = Release("job")
    /\ pc' = "submit"
    /\ UNCHANGED <<configVars, current_page, verified_page, attempt_idx, attempts, best, raised,
                   yielded, page_outputs, poolVars, dirVars, readerVars, failed>>

\* A variant that waits for each page's verification before the next page.
AfterSubmitCollects(page_number) == "collect"

\* Where the page loop goes after verify_pool.submit: the next page's primary
\* attempts, or the as_completed loop after the last page.
AfterSubmit(page_number) ==
    IF page_number < input_pages THEN "attempt_update" ELSE "collect"

\* verify_pool.submit(_verify_page_worker, ...); verify_futures[future] = page
Submit ==
    /\ pc = "submit"
    /\ verify_queue' = Append(verify_queue,
            [page_number |-> current_page, best_candidate |-> best.candidate,
             best_profile |-> best.profile, best_analysis |-> best.analysis,
             attempts |-> attempts])
    /\ futures' = [futures EXCEPT ![current_page] =
                        [state |-> "pending", result |-> None]]
    /\ pc' = AfterSubmit(current_page)
    /\ IF pc' = "attempt_update"
       THEN /\ current_page' = current_page + 1
            /\ attempt_idx' = 1
            /\ attempts' = <<>>
            /\ best' = NoBest
       ELSE UNCHANGED <<current_page, attempt_idx, attempts, best>>
    /\ UNCHANGED <<configVars, tableVars, verified_page, raised, yielded, page_outputs,
                   worker, scan_dirs, dirVars, readerVars, failed>>

\* d[key] = value on a dict: a new key is added at the end.
DictSet(d, key, value) ==
    IF \E i \in DOMAIN d : d[i][1] = key
    THEN [i \in DOMAIN d |-> IF d[i][1] = key THEN <<key, value>> ELSE d[i]]
    ELSE Append(d, <<key, value>>)

\* d[key]
DictGet(d, key) == d[CHOOSE i \in DOMAIN d : d[i][1] = key][2]

\* as_completed(verify_futures) hands over a finished future: one of those
\* already finished (in set order), or the next to finish.
Collect ==
    /\ pc = "collect"
    /\ \E f \in Pages \ yielded :
        /\ futures[f].state \in {"returned", "raised"}
        /\ yielded' = yielded \cup {f}
        /\ verified_page' = f
        /\ IF futures[f].state = "returned"
           THEN /\ page_outputs' =
                    DictSet(page_outputs, f, futures[f].result[1].final_page_output)
                /\ pc' = "publish_done"
           ELSE /\ page_outputs' = page_outputs
                /\ pc' = "verify_error"
    /\ UNCHANGED <<configVars, tableVars, current_page, attempt_idx, attempts, best,
                   raised, poolVars, dirVars, readerVars, failed>>

\* The update that publishes a verification result (web.py 882-903).
DoneUpdate(result) ==
    [status |-> "done", attempts_done |-> result.attempts_done,
     attempts_total |-> result.attempts_total, current_profile |-> "",
     best_score |-> result.best_score,
     best_selection_score |-> result.best_selection_score,
     best_profile |-> result.best_profile,
     attempt_history |-> result.attempt_history,
     scan_full_words |-> result.scan_full_words,
     scan_tile_words |-> result.scan_tile_words,
     scan_gain_ratio |-> result.scan_gain_ratio,
     scan_vertical_words |-> result.scan_vertical_words,
     table_rescue_words |-> result.table_rescue_words,
     augmented_words |-> result.augmented_words,
     fallback_lines |-> result.fallback_lines,
     needs_review |-> result.needs_review,
     review_image_path |-> result.review_image_path]


PublishDone ==
    /\ pc = "publish_done" /\ lock = "job"
    /\ job' = _update_page_detail(job, verified_page,
                                  DoneUpdate(futures[verified_page].result[1]))
    /\ lock' = Release("job")
    /\ pc' = "mark_completed"
    /\ UNCHANGED <<configVars, current_page, verified_page, attempt_idx, attempts, best,
                   raised, yielded, page_outputs, poolVars, dirVars, readerVars,
                   failed>>

\* _mark_page_completed(job_id, verified_page); the loop asks for the next future.
MarkCompleted ==
    /\ pc = "mark_completed" /\ lock = "job"
    /\ job' = _mark_page_completed(job, verified_page)
    /\ lock' = Release("job")
    /\ pc' = "collect"
    /\ UNCHANGED <<configVars, current_page, verified_page, attempt_idx, attempts, best,
                   raised, yielded, page_outputs, poolVars, dirVars, readerVars,
                   failed>>

\* future.result() raised: the page is marked and RuntimeError leaves the loop
\* (web.py 875-879).
VerifyError ==
    /\ pc = "verify_error" /\ lock = "job"
    /\ job' = _update_page_detail(job, verified_page, [status |-> "error"])
    /\ lock' = Release("job")
    /\ raised' = TRUE
    /\ pc' = "pool_exit"
    /\ UNCHANGED <<configVars, current_page, verified_page, attempt_idx, attempts, best,
                   yielded, page_outputs, poolVars, dirVars, readerVars, failed>>

\* as_completed is exhausted: every future was handed over.
CollectEnd ==
    /\ pc = "collect"
    /\ yielded = Pages
    /\ pc' = "pool_exit"
    /\ UNCHANGED <<configVars, tableVars, current_page, verified_page, attempt_idx,
                   attempts, best, raised, yielded, page_outputs, poolVars, dirVars,
                   readerVars, failed>>

\* A variant that does not wait: shutdown(wait=False).
PoolNotAwaited(queue, w) == TRUE

\* ProcessPoolExecutor.__exit__ is shutdown(wait=True): it returns once the
\* worker has run every submitted work item.
PoolDrained(queue, w) == queue = <<>> /\ \A i \in DOMAIN w : w[i].pc = "idle"

PoolExit ==
    /\ pc = "pool_exit"
    /\ PoolDrained(verify_queue, worker)
    /\ pc' = IF raised THEN "exit_temp_dir" ELSE "merge"
    /\ UNCHANGED <<configVars, tableVars, current_page, verified_page, attempt_idx,
                   attempts, best, raised, yielded, page_outputs, poolVars, dirVars,
                   readerVars, failed>>

\* A variant that takes list(page_outputs.values()): the order of arrival.
ordered_outputs_by_arrival(outputs, n) == [idx \in 1 .. n |-> outputs[idx][2]]

\* ordered_outputs = [page_outputs[idx] for idx in range(1, len(page_inputs) + 1)]
ordered_outputs(outputs, n) == [idx \in 1 .. n |-> DictGet(outputs, idx)]

\* _merge_single_page_pdfs(ordered_outputs, output_pdf)
Merge ==
    /\ pc = "merge"
    /\ \/ /\ output_pdf' = Some(ordered_outputs(page_outputs, input_pages))
          /\ pc' = "set_done"
          /\ UNCHANGED <<raised, failed>>
       \/ /\ CanFail
          /\ raised' = TRUE
          /\ failed' = failed \cup {Failure(0, "merge", "PdfError")}
          /\ pc' = "exit_temp_dir"
          /\ UNCHANGED output_pdf
    /\ UNCHANGED <<configVars, tableVars, current_page, verified_page, attempt_idx,
                   attempts, best, yielded, page_outputs, poolVars,
                   upload_cleanup_dir, temp_dir, readerVars>>

\* _update_job(job_id, status="done", output_pdf=str(output_pdf))
SetDone ==
    /\ pc = "set_done" /\ lock = "job"
    /\ job' = [job EXCEPT !.status = "done"]
    /\ lock' = Release("job")
    /\ pc' = "exit_temp_dir"
    /\ UNCHANGED <<configVars, current_page, verified_page, attempt_idx, attempts, best,
                   raised, yielded, page_outputs, poolVars, dirVars, readerVars,
                   failed>>

\* A variant of the except clause that records the job's error first.
ExceptHandlerJobFirst(at, cp) ==
    IF at = "exit_temp_dir" THEN "except_job"
    ELSE IF at = "except_job" THEN (IF cp > 0 THEN "except_page" ELSE "finally")
    ELSE "finally"

\* The order of the except clause (909-922): the page record of current_page,
\* if any, then the job record.
ExceptHandler(at, cp) ==
    IF at = "exit_temp_dir" THEN (IF cp > 0 THEN "except_page" ELSE "except_job")
    ELSE IF at = "except_page" THEN "except_job"
    ELSE "finally"

\* The `with tempfile.TemporaryDirectory` block is left, normally or by an
\* exception, and removes the directory.
ExitTempDir ==
    /\ pc = "exit_temp_dir"
    /\ temp_dir' = FALSE
    /\ pc' = IF ~raised THEN "finally" ELSE ExceptHandler("exit_temp_dir", current_page)
    /\ UNCHANGED <<configVars, tableVars, current_page, verified_page, attempt_idx,
                   attempts, best, raised, yielded, page_outputs, poolVars,
                   upload_cleanup_dir, output_pdf, readerVars, failed>>

\* except ...: if current_page > 0: _update_page_detail(current_page, "error")
ExceptPage ==
    /\ pc = "except_page" /\ lock = "job"
    /\ job' = _update_page_detail(job, current_page, [status |-> "error"])
    /\ lock' = Release("job")
    /\ pc' = ExceptHandler("except_page", current_page)
    /\ UNCHANGED <<configVars, current_page, verified_page, attempt_idx, attempts, best,
                   raised, yielded, page_outputs, poolVars, dirVars, readerVars,
                   failed>>

\* _update_job(job_id, status="error", error=str(exc))
ErrorUpdate(j) == [j EXCEPT !.status = "error", !.error = TRUE]

ExceptJob ==
    /\ pc = "except_job" /\ lock = "job"
    /\ job' = ErrorUpdate(job)
    /\ lock' = Release("job")
    /\ raised' = FALSE
    /\ pc' = ExceptHandler("except_job", current_page)
    /\ UNCHANGED <<configVars, current_page, verified_page, attempt_idx, attempts, best,
                   yielded, page_outputs, poolVars, dirVars, readerVars, failed>>

\* finally: shutil.rmtree(upload_cleanup_dir, ignore_errors=True); the job
\* thread returns.
Finally ==
    /\ pc = "finally"
    /\ upload_cleanup_dir' = FALSE
    /\ pc' = "returned"
    /\ UNCHANGED <<configVars, tableVars, current_page, verified_page, attempt_idx,
                   attempts, best, raised, yielded, page_outputs, poolVars, temp_dir,
                   output_pdf, readerVars, failed>>


\* ------------------------------------------------------ verification worker[i]

\* The worker process takes the next work item; _verify_page_worker copies its
\* arguments, recomputes best_selection_score (1036-1043), enters the scan
\* directory and starts rendering the page.
\* worker[i] continues with the locals w.
SetWorker(i, w) == worker' = [worker EXCEPT ![i] = w]

RECURSIVE MaxSelection(_, _)
MaxSelection(items, start) ==
    IF items = <<>> THEN start
    ELSE MaxSelection(Tail(items),
                      IF Head(items).selection_score > start
                      THEN Head(items).selection_score ELSE start)

WorkerLocals(item) ==
    [pc |-> "render",
     page_number |-> item.page_number,
     best_candidate |-> item.best_candidate,
     best_profile |-> item.best_profile,
     best_analysis |-> item.best_analysis,
     best_selection_score |->
        MaxSelection(item.attempts,
            _candidate_selection_score(item.best_analysis, settings.drawing_mode)),
     attempts_local |-> item.attempts,
     coverage |-> NoCoverage,
     scan |-> Detected(0, 0, 0, 0, 0, 0, 0),
     rescue_lines |-> 0,
     review_path |-> "",
     augmented_words |-> 0,
     fallback_lines |-> 0]

WorkerStart(i) ==
    /\ worker[i].pc = "idle"
    /\ verify_queue # <<>>
    /\ SetWorker(i, WorkerLocals(Head(verify_queue)))
    /\ verify_queue' = Tail(verify_queue)
    /\ futures' = [futures EXCEPT ![Head(verify_queue).page_number].state = "running"]
    /\ scan_dirs' = scan_dirs \cup {Head(verify_queue).page_number}
    /\ UNCHANGED <<configVars, tableVars, threadVars, dirVars, readerVars, failed>>

\* A variant in which the worker swallows the exception and goes on to
\* finalise the page.
WorkerFailsSwallowed(i, call, kind) ==
    /\ CanFail
    /\ SetWorker(i, [worker[i] EXCEPT !.pc = "copy"])
    /\ failed' = failed \cup {Failure(worker[i].page_number, call, kind)}

\* An exception no handler of _verify_page_worker catches leaves the function.
WorkerFails(i, call, kind) ==
    /\ CanFail
    /\ SetWorker(i, [worker[i] EXCEPT !.pc = "raise"])
    /\ failed' = failed \cup {Failure(worker[i].page_number, call, kind)}

\* A variant that does not ask whether the interim result needs review.
run_secondary_rescue_unflagged(analysis, coverage, s) ==
    /\ s.deep_verify
    /\ s.drawing_mode =>
        \/ analysis.score < 300
        \/ analysis.eng_token_count < 6
        \/ Get(coverage, "combined_words", 0) < 45

\* The secondary rescue pass runs if the interim result needs review and, in
\* drawing mode, is weak (1127-1136).
run_secondary_rescue(analysis, coverage, s) ==
    /\ s.deep_verify
    /\ _needs_manual_review(analysis, coverage, s)
    /\ s.drawing_mode =>
        \/ analysis.score < 300
        \/ analysis.eng_token_count < 6
        \/ Get(coverage, "combined_words", 0) < 45

AfterRescue(w) ==
    IF run_secondary_rescue(w.best_analysis, w.coverage, settings)
    THEN "secondary_ocr" ELSE "review"

AfterCoverage(w) ==
    IF _should_run_rescue_pass(w.best_analysis, w.coverage, settings)
    THEN "rescue_ocr" ELSE AfterRescue(w)

\* A variant that scans the coverage whether or not deep verification is on.
AfterRenderAlwaysScans(w) ==
    IF w.pc = "render" /\ settings.drawing_mode THEN "render_rescue" ELSE "scan"

\* _render_pdf_to_png (gs) at 320 / 260 dpi, and at 420 dpi in drawing mode.
AfterRender(w) ==
    IF w.pc = "render" /\ settings.drawing_mode THEN "render_rescue"
    ELSE IF settings.deep_verify THEN "scan"
    ELSE AfterCoverage(w)

Render(i) ==
    /\ worker[i].pc \in {"render", "render_rescue"}
    /\ \/ /\ SetWorker(i, [worker[i] EXCEPT !.pc = AfterRender(worker[i])])
          /\ UNCHANGED failed
       \/ WorkerFails(i, "render", "CalledProcessError")
    /\ UNCHANGED <<configVars, tableVars, threadVars, verify_queue, futures, scan_dirs,
                   dirVars, readerVars>>

\* The detector calls of the design-table row scan that fail are skipped
\* (2032-2040): their rows add no table boxes.
WithoutTable(d) ==
    [d EXCEPT !.table = 0, !.combined = d.combined - d.table]

AfterScan(w) ==
    IF settings.drawing_mode THEN "text_rescue" ELSE AfterCoverage(w)

\* _scan_page_coverage: a failing word detection propagates, except in the
\* design-table row scan.
Scan(i) ==
    /\ worker[i].pc = "scan"
    /\ \/ \E d \in scans :
            LET w == [worker[i] EXCEPT
                        !.coverage = _scan_page_coverage(d, settings.drawing_mode),
                        !.scan = d]
            IN  /\ SetWorker(i, [w EXCEPT !.pc = AfterScan(w)])
                /\ UNCHANGED failed
       \/ \E d \in scans :
            LET w == [worker[i] EXCEPT
                        !.coverage = _scan_page_coverage(WithoutTable(d),
                                                         settings.drawing_mode),
                        !.scan = d]
            IN  /\ settings.drawing_mode
                /\ CanFail
                /\ SetWorker(i, [w EXCEPT !.pc = AfterScan(w)])
                /\ failed' = failed \cup
                    {Failure(worker[i].page_number, "table_detect", "CalledProcessError")}
       \/ WorkerFails(i, "detect", "CalledProcessError")
    /\ UNCHANGED <<configVars, tableVars, threadVars, verify_queue, futures, scan_dirs,
                   dirVars, readerVars>>

\* _extract_plain_text_rescue; except (OSError, CalledProcessError): no lines.
TextRescue(i) ==
    /\ worker[i].pc = "text_rescue"
    /\ \/ /\ SetWorker(i, [worker[i] EXCEPT !.rescue_lines = worker[i].scan.lines,
                                      !.pc = AfterCoverage(worker[i])])
          /\ UNCHANGED failed
       \/ /\ CanFail
          /\ SetWorker(i, [worker[i] EXCEPT !.rescue_lines = 0,
                                      !.pc = AfterCoverage(worker[i])])
          /\ failed' = failed \cup
                {Failure(worker[i].page_number, "text_rescue", "CalledProcessError")}
    /\ UNCHANGED <<configVars, tableVars, threadVars, verify_queue, futures, scan_dirs,
                   dirVars, readerVars>>

\* A variant that puts the rescue attempt in front of the attempts made so far.
RescueResultInFront(w, candidate, profile, text) ==
    LET analysis == _analyze_ocr_pdf(text)
        selection == _candidate_selection_score(analysis, settings.drawing_mode)
        better == selection > w.best_selection_score
    IN  [w EXCEPT
            !.attempts_local =
                <<AttemptInfo(Len(w.attempts_local) + 1, profile, analysis, selection)>>
                \o @,
            !.best_selection_score = IF better THEN selection ELSE @,
            !.best_candidate = IF better THEN candidate ELSE @,
            !.best_profile = IF better THEN profile ELSE @,
            !.best_analysis = IF better THEN analysis ELSE @]

\* A variant in which a rescue candidate that only equals the best replaces it.
RescueResultOnTie(w, candidate, profile, text) ==
    LET analysis == _analyze_ocr_pdf(text)
        selection == _candidate_selection_score(analysis, settings.drawing_mode)
        better == selection >= w.best_selection_score
    IN  [w EXCEPT
            !.attempts_local = Append(@,
                AttemptInfo(Len(w.attempts_local) + 1, profile, analysis, selection)),
            !.best_selection_score = IF better THEN selection ELSE @,
            !.best_candidate = IF better THEN candidate ELSE @,
            !.best_profile = IF better THEN profile ELSE @,
            !.best_analysis = IF better THEN analysis ELSE @]

\* A rescue candidate is analysed, appended to attempts_local and replaces the
\* best only if its selection score is strictly greater (1105-1126, 1159-1180).
RescueResult(w, candidate, profile, text) ==
    LET analysis == _analyze_ocr_pdf(text)
        selection == _candidate_selection_score(analysis, settings.drawing_mode)
        better == selection > w.best_selection_score
    IN  [w EXCEPT
            !.attempts_local = Append(@,
                AttemptInfo(Len(w.attempts_local) + 1, profile, analysis, selection)),
            !.best_selection_score = IF better THEN selection ELSE @,
            !.best_candidate = IF better THEN candidate ELSE @,
            !.best_profile = IF better THEN profile ELSE @,
            !.best_analysis = IF better THEN analysis ELSE @]

RescueOcr(i) ==
    /\ worker[i].pc = "rescue_ocr"
    /\ \/ \E text \in ocr_texts :
            LET w == RescueResult(worker[i], Some(<<worker[i].page_number, "rescue", 1>>),
                                  _build_rescue_profile(settings), text)
            IN  /\ SetWorker(i, [w EXCEPT !.pc = AfterRescue(w)])
                /\ UNCHANGED failed
       \/ WorkerFails(i, "rescue_ocr", "CalledProcessError")
    /\ UNCHANGED <<configVars, tableVars, threadVars, verify_queue, futures, scan_dirs,
                   dirVars, readerVars>>

SecondaryOcr(i) ==
    /\ worker[i].pc = "secondary_ocr"
    /\ \/ \E text \in ocr_texts :
            /\ SetWorker(i, [RescueResult(worker[i],
                            Some(<<worker[i].page_number, "rescue", 2>>),
                            _build_secondary_rescue_profile(settings), text)
                          EXCEPT !.pc = "review"])
            /\ UNCHANGED failed
       \/ WorkerFails(i, "secondary_ocr", "CalledProcessError")
    /\ UNCHANGED <<configVars, tableVars, threadVars, verify_queue, futures, scan_dirs,
                   dirVars, readerVars>>


\* The kinds of exception drawing the review image can raise: OSError from
\* the file system or the image codec, MemoryError from converting a large
\* raster to RGB.
ReviewErrorKinds == {"OSError", "MemoryError"}

\* The kinds of exception a text injection can raise: OSError, ValueError, and
\* PdfError (pikepdf's error class, a direct subclass of Exception).
InjectErrorKinds == {"OSError", "ValueError", "PdfError"}

\* except (OSError, ImportError) around _write_review_overlay (1189)
ReviewCatches(kind) == kind \in {"OSError", "ImportError"}

\* except (OSError, ValueError, RuntimeError) around the injections (1200, 1208)
InjectCatches(kind) == kind \in {"OSError", "ValueError", "RuntimeError"}

\* _write_review_overlay(rendered_png, coverage["boxes"], ...)
Review(i) ==
    /\ worker[i].pc = "review"
    /\ \/ /\ SetWorker(i, [worker[i] EXCEPT !.review_path = "review.png", !.pc = "copy"])
          /\ UNCHANGED failed
       \/ \E kind \in ReviewErrorKinds :
            /\ CanFail
            /\ failed' = failed \cup {Failure(worker[i].page_number, "review", kind)}
            /\ SetWorker(i, IF ReviewCatches(kind)
                         THEN [worker[i] EXCEPT !.review_path = "", !.pc = "copy"]
                         ELSE [worker[i] EXCEPT !.pc = "raise"])
    /\ UNCHANGED <<configVars, tableVars, threadVars, verify_queue, futures, scan_dirs,
                   dirVars, readerVars>>

InjectsBoxes(w) ==
    settings.deep_verify /\ settings.drawing_mode /\ w.coverage.boxes > 0

InjectsLines(w) ==
    settings.deep_verify /\ settings.drawing_mode /\ w.rescue_lines > 0

AfterCopy(w) ==
    IF InjectsBoxes(w) THEN "inject_boxes"
    ELSE IF InjectsLines(w) THEN "inject_lines"
    ELSE "return"

\* shutil.copyfile(best_candidate, final_page_output)
Copy(i) ==
    /\ worker[i].pc = "copy"
    /\ \/ /\ SetWorker(i, [worker[i] EXCEPT !.pc = AfterCopy(worker[i])])
          /\ UNCHANGED failed
       \/ WorkerFails(i, "copy", "OSError")
    /\ UNCHANGED <<configVars, tableVars, threadVars, verify_queue, futures, scan_dirs,
                   dirVars, readerVars>>

\* _inject_invisible_text_from_boxes returns len(overlay_words): the boxes
\* _prepare_overlay_words keeps, at most 3500.
InjectBoxes(i) ==
    /\ worker[i].pc = "inject_boxes"
    /\ LET next == IF InjectsLines(worker[i]) THEN "inject_lines" ELSE "return"
       IN  \/ /\ SetWorker(i, [worker[i] EXCEPT
                                !.augmented_words =
                                    Min(worker[i].scan.overlay_words, 3500),
                                !.pc = next])
              /\ UNCHANGED failed
           \/ \E kind \in InjectErrorKinds :
                /\ CanFail
                /\ failed' = failed \cup
                        {Failure(worker[i].page_number, "inject_boxes", kind)}
                /\ SetWorker(i, IF InjectCatches(kind)
                             THEN [worker[i] EXCEPT !.augmented_words = 0, !.pc = next]
                             ELSE [worker[i] EXCEPT !.pc = "raise"])
    /\ UNCHANGED <<configVars, tableVars, threadVars, verify_queue, futures, scan_dirs,
                   dirVars, readerVars>>

\* _inject_hidden_text_lines returns len(overlay_words), at most 180 lines.
InjectLines(i) ==
    /\ worker[i].pc = "inject_lines"
    /\ \/ /\ SetWorker(i, [worker[i] EXCEPT
                            !.fallback_lines = Min(worker[i].rescue_lines, 180),
                            !.pc = "return"])
          /\ UNCHANGED failed
       \/ \E kind \in InjectErrorKinds :
            /\ CanFail
            /\ failed' = failed \cup
                    {Failure(worker[i].page_number, "inject_lines", kind)}
            /\ SetWorker(i, IF InjectCatches(kind)
                         THEN [worker[i] EXCEPT !.fallback_lines = 0, !.pc = "return"]
                         ELSE [worker[i] EXCEPT !.pc = "raise"])
    /\ UNCHANGED <<configVars, tableVars, threadVars, verify_queue, futures, scan_dirs,
                   dirVars, readerVars>>

\* A variant that never clears the flag.
FinalNeedsReviewUncleared(w) ==
    _needs_manual_review(w.best_analysis, w.coverage, settings)

\* needs_review of the result (1211-1217)
FinalNeedsReview(w) ==
    LET combined_words == Get(w.coverage, "combined_words", 0)
        cleared ==
            /\ settings.drawing_mode
            /\ \/ w.augmented_words >= 120 /\ combined_words >= 120
               \/ w.fallback_lines >= 20 /\ combined_words >= 80
    IN  _needs_manual_review(w.best_analysis, w.coverage, settings) /\ ~cleared

\* The dictionary _verify_page_worker returns (1219-1237).
WorkerResult(w) ==
    [final_page_output |-> <<"ocr_page", w.page_number>>,
     attempts_done |-> Len(w.attempts_local),
     attempts_total |-> Len(w.attempts_local),
     best_score |-> w.best_analysis.score,
     best_selection_score |-> w.best_selection_score,
     best_profile |-> w.best_profile,
     attempt_history |-> w.attempts_local,
     scan_full_words |-> w.coverage.full_words,
     scan_tile_words |-> w.coverage.tile_words,
     scan_gain_ratio |-> w.coverage.gain_ratio,
     scan_vertical_words |-> w.coverage.vertical_words,
     table_rescue_words |-> w.coverage.table_words,
     augmented_words |-> w.augmented_words,
     fallback_lines |-> w.fallback_lines,
     needs_review |-> FinalNeedsReview(w),
     review_image_path |-> w.review_path]

\* The scan directory's `with` block is left and the result is returned: the
\* future finishes with it.
WorkerReturn(i) ==
    /\ worker[i].pc = "return"
    /\ scan_dirs' = scan_dirs \ {worker[i].page_number}
    /\ futures' = [futures EXCEPT ![worker[i].page_number] =
                    [state |-> "returned", result |-> Some(WorkerResult(worker[i]))]]
    /\ SetWorker(i, IdleWorker)
    /\ UNCHANGED <<configVars, tableVars, threadVars, verify_queue, dirVars,
                   readerVars, failed>>

\* An exception leaves the scan directory's `with` block and the worker
\* function: the future finishes with the exception.
WorkerRaise(i) ==
    /\ worker[i].pc = "raise"
    /\ scan_dirs' = scan_dirs \ {worker[i].page_number}
    /\ futures' = [futures EXCEPT ![worker[i].page_number] =
                    [state |-> "raised", result |-> None]]
    /\ SetWorker(i, IdleWorker)
    /\ UNCHANGED <<configVars, tableVars, threadVars, verify_queue, dirVars,
                   readerVars, failed>>

\* ------------------------------------------------------------ status reader

\* A status request arrives (GET /api/job -> _get_job_snapshot).
SnapshotRequest ==
    /\ reader = "idle"
    /\ reader' = "waiting"
    /\ UNCHANGED <<configVars, tableVars, threadVars, poolVars, dirVars, failed>>

\* with _JOBS_LOCK:
SnapshotAcquire ==
    /\ reader = "waiting"
    /\ lock = "free"
    /\ lock' = "reader"
    /\ reader' = "copying"
    /\ UNCHANGED <<configVars, job, threadVars, poolVars, dirVars, failed>>

\* The copy made under the lock (782-802); review_image_path becomes review_url.
_get_job_snapshot(j) ==
    [status |-> j.status, total_pages |-> j.total_pages,
     completed_pages |-> j.completed_pages, error |-> j.error,
     page_details |-> j.page_details]

\* The copy is returned and the lock released: the value returned is
\* _get_job_snapshot(job) of the state in which the reader holds the lock.
SnapshotReturn ==
    /\ reader = "copying" /\ lock = "reader"
    /\ lock' = Release("reader")
    /\ reader' = "idle"
    /\ UNCHANGED <<configVars, job, threadVars, poolVars, dirVars, failed>>

\* ------------------------------------------------------------ specification

JobThread ==
    \/ JobAcquire \/ JobStart \/ Split \/ SetTotal \/ InitPages
    \/ AttemptUpdate \/ RunOcrDone \/ RunOcrFail \/ AttemptPublish
    \/ MarkVerifying \/ Submit \/ Collect \/ PublishDone \/ MarkCompleted
    \/ VerifyError \/ CollectEnd \/ PoolExit \/ Merge \/ SetDone
    \/ ExitTempDir \/ ExceptPage \/ ExceptJob \/ Finally

VerifyWorker ==
    \E i \in Workers :
        \/ WorkerStart(i) \/ Render(i) \/ Scan(i) \/ TextRescue(i)
        \/ RescueOcr(i) \/ SecondaryOcr(i) \/ Review(i) \/ Copy(i)
        \/ InjectBoxes(i) \/ InjectLines(i) \/ WorkerReturn(i) \/ WorkerRaise(i)

Reader == SnapshotRequest \/ SnapshotAcquire \/ SnapshotReturn

\* The job thread and its verification worker.
Next == JobThread \/ VerifyWorker

Spec == Init /\ [][Next]_vars

\* The job of a one-page document with varied OCR results.
OnePageSpec == OnePageInit /\ [][Next]_vars

\* The job with a client polling its status. The state-table operations run to
\* their end once they hold the lock and a request that finds the lock free
\* takes it; nothing says that an external call (OCR, rasterizer, detector,
\* PDF library) or a wait of the job thread ever returns.
JobTableOp ==
    \/ JobStart \/ SetTotal \/ InitPages \/ AttemptUpdate \/ AttemptPublish
    \/ MarkVerifying \/ PublishDone \/ MarkCompleted \/ VerifyError \/ SetDone
    \/ ExceptPage \/ ExceptJob

SnapshotNext == Next \/ Reader

\* The polled jobs of the model: documents of at most MaxSnapshotPages pages.
SnapshotInit == Init /\ input_pages <= MaxSnapshotPages

SnapshotSpec ==
    /\ SnapshotInit
    /\ [][SnapshotNext]_vars
    /\ WF_vars(JobTableOp)
    /\ WF_vars(SnapshotAcquire)
    /\ WF_vars(SnapshotReturn)

\* ------------------------------------------------------------------ claims

\* The status of page p's record; "absent" before _init_page_details.
PageStatus(p) ==
    IF p \in DOMAIN job.page_details THEN job.page_details[p].status ELSE "absent"

\* C1: whenever the job's status is done, the table holds one record per page
\* of the input, every page record has status done, completed_pages is
\* 1..N, and the merge has already written output_pdf.
C1_DoneOnlyAfterAllPagesDone ==
    job.status = "done" =>
        /\ Len(job.page_details) = input_pages
        /\ job.total_pages = input_pages
        /\ \A p \in Pages : PageStatus(p) = "done"
        /\ job.completed_pages = [i \in 1 .. input_pages |-> i]
        /\ output_pdf # None

\* A job of several pages is done, the last result received being page 1's.
C1_Witness ==
    job.status = "done" /\ input_pages >= 2 /\ verified_page = 1

\* C2: the merge writes exactly one final output per page number 1..N, in
\* ascending page number, whatever the order in which the results arrived.
C2_MergedInPageOrder ==
    output_pdf # None =>
        output_pdf[1] = [idx \in 1 .. input_pages |-> <<"ocr_page", idx>>]

\* The merge has run after the result of page 2 arrived before that of page 1.
C2_Witness ==
    /\ output_pdf # None
    /\ Len(page_outputs) >= 2
    /\ page_outputs[1][1] = 2
    /\ page_outputs[2][1] = 1

\* C3: every step that changes the status of a page record changes it from
\* pending to running, running to verifying, verifying to done, or to error.
PageTransitions ==
    {<<"pending", "running">>, <<"running", "verifying">>,
     <<"verifying", "done">>}
    \cup {<<from, "error">> : from \in {"pending", "running", "verifying", "done"}}

C3_PageStatusTransitions ==
    [][\A p \in DOMAIN job.page_details \cap DOMAIN job'.page_details :
          job'.page_details[p].status # job.page_details[p].status =>
              <<job.page_details[p].status, job'.page_details[p].status>>
                  \in PageTransitions]_vars

\* A page that went through every phase to done was then set to error, while
\* an earlier page reached done the regular way.
C3_Witness ==
    /\ input_pages >= 2
    /\ PageStatus(input_pages) = "error"
    /\ \E i \in DOMAIN job.completed_pages : job.completed_pages[i] = input_pages
    /\ PageStatus(1) = "done"

\* C4: the job's status only moves queued -> running -> done | error, and once
\* it is done or error nothing of the job record, page records included,
\* changes again.
JobTransitions ==
    {<<"queued", "running">>, <<"running", "done">>, <<"running", "error">>}

C4_JobStatusTerminal ==
    [][/\ job'.status # job.status => <<job.status, job'.status>> \in JobTransitions
       /\ job.status \in {"done", "error"} => job' = job]_vars

\* The job thread has returned from a job that failed after a page was done.
C4_Witness ==
    /\ pc = "returned"
    /\ job.status = "error"
    /\ \E p \in Pages : PageStatus(p) = "done"

\* C7: verification results are collected only after the primary attempts of
\* the last page: once a result was handed over or a page is done, every page
\* has been submitted to the verification pool.
C7_CollectAfterLastPrimary ==
    (yielded # {} \/ \E p \in DOMAIN job.page_details : PageStatus(p) = "done")
        => /\ current_page = input_pages
           /\ \A p \in Pages : futures[p].state # "none"

\* Page N is running its primary attempt while the worker verifies page N-1.
C7_Witness ==
    \E p \in Pages \ {1} :
        /\ pc = "run_ocr" /\ current_page = p
        /\ PageStatus(p) = "running"
        /\ PageStatus(p - 1) = "verifying"
        /\ futures[p - 1].state = "running"

\* C10: when the job thread has returned, the temporary page directory, every
\* scan directory and the upload directory are gone.
C10_CleanupOnEveryExit ==
    pc = "returned" =>
        /\ ~temp_dir
        /\ scan_dirs = {}
        /\ ~upload_cleanup_dir

\* The job thread has returned after an error although a verification had run
\* to its end, its result never collected.
C10_Witness ==
    /\ pc = "returned"
    /\ job.status = "error"
    /\ \E p \in Pages : futures[p].state = "returned" /\ p \notin yielded


\* External processes: the OCR primitive, the rasterizer, the word detector.
ProcessCalls ==
    {"run_ocr", "rescue_ocr", "secondary_ocr", "render", "detect", "table_detect",
     "text_rescue"}

\* The detector calls whose failure a handler catches: the design-table row
\* scan and the plain-text rescue scan.
CaughtProcessCalls == {"table_detect", "text_rescue"}

\* C5 as stated: after any failed invocation of an external process the job
\* never reaches done and the merge never runs.
C5_AnyProcessFailureAbortsJob ==
    \A f \in failed :
        f.call \in ProcessCalls => job.status # "done" /\ output_pdf = None

\* C5 as amended: a failed invocation of the OCR primitive, of the rasterizer
\* or of a word detection of the coverage scan proper is not retried (the page
\* never yields a verification result), the merge never runs and the job ends
\* with status error; the detector failures of the design-table row scan and
\* of the plain-text rescue scan are caught instead.
C5_PropagatingFailureAbortsJob ==
    \A f \in failed :
        f.call \in ProcessCalls \ CaughtProcessCalls =>
            /\ job.status # "done"
            /\ output_pdf = None
            /\ futures[f.page].state # "returned"
            /\ pc = "returned" => job.status = "error"

\* The job thread has returned after a word detection of page 1's coverage
\* scan failed while page 2 went through its primary attempts.
C5_Witness ==
    /\ pc = "returned"
    /\ input_pages >= 2
    /\ Failure(1, "detect", "CalledProcessError") \in failed
    /\ futures[1].state = "raised"
    /\ futures[2].state = "returned"

PrimaryOcrRunning == IF pc = "run_ocr" THEN 1 ELSE 0

RescueOcrRunning ==
    Cardinality({i \in Workers : worker[i].pc \in {"rescue_ocr", "secondary_ocr"}})

\* C6 as stated: at most one run_ocr invocation of the job is in progress,
\* primary attempts and rescue passes counted together.
C6_OneOcrAtATime == PrimaryOcrRunning + RescueOcrRunning <= 1

\* C6 as amended: at most one rescue or secondary-rescue pass is in progress
\* (the pool has one worker) and at most one primary attempt; the two can
\* overlap, so at most two invocations are in progress.
C6_OnePrimaryOneRescue ==
    /\ RescueOcrRunning <= 1
    /\ PrimaryOcrRunning + RescueOcrRunning <= 2

\* A primary attempt of page 2 runs while the worker runs a rescue pass of
\* page 1.
C6_Witness ==
    /\ pc = "run_ocr" /\ current_page = 2
    /\ \E i \in Workers : worker[i].pc = "rescue_ocr" /\ worker[i].page_number = 1

\* C8: the mutex is held by the job thread only inside a state-table
\* operation and by a reader only while it copies, so never by a thread that
\* waits for an external process; and every status request gets its snapshot,
\* whether or not the external calls in progress ever return.
LockHeldOnlyInTableOps ==
    /\ lock \in {"free", "job", "reader"}
    /\ lock = "job" => pc \in LockedPc
    /\ lock = "reader" <=> reader = "copying"

C8_SnapshotNeverBlocked ==
    /\ []LockHeldOnlyInTableOps
    /\ (reader = "waiting") ~> (reader = "idle")

\* A snapshot is copied while the job thread waits for a verification result
\* and the worker's rescue OCR pass is in progress.
C8_Witness ==
    /\ reader = "copying"
    /\ pc = "collect"
    /\ \E i \in Workers : worker[i].pc = "rescue_ocr"

BestEffortCalls == {"review", "inject_boxes", "inject_lines"}

\* C9: a failure, of whatever kind, of the review image or of a text injection
\* never makes the page's verification fail, and the page is published with
\* an empty review path / augmented_words = 0 / fallback_lines = 0.
C9_BestEffortNeverAborts ==
    \A f \in failed :
        f.call \in BestEffortCalls =>
            /\ futures[f.page].state = "raised" =>
                    \E g \in failed : g.page = f.page /\ g.call \notin BestEffortCalls
            /\ \A i \in Workers :
                    (worker[i].pc = "raise" /\ worker[i].page_number = f.page) =>
                    \E g \in failed : g.page = f.page /\ g.call \notin BestEffortCalls
            /\ PageStatus(f.page) = "done" =>
                    /\ f.call = "review" => job.page_details[f.page].review_image_path = ""
                    /\ f.call = "inject_boxes" => job.page_details[f.page].augmented_words = 0
                    /\ f.call = "inject_lines" => job.page_details[f.page].fallback_lines = 0


\* score == alnum_chars + 2 * token_count + 5 * eng_token_count
ScoreExact(analysis) ==
    analysis.score = analysis.alnum_chars + (2 * analysis.token_count)
                     + (5 * analysis.eng_token_count)

\* An attempt-history entry publishes score, tokens and eng_tokens but not
\* alnum_chars: it is exact if it is what the analysis of a text the OCR
\* primitive can produce publishes.
EntryExact(entry) ==
    \E text \in ocr_texts :
        /\ entry.tokens = text.tokens
        /\ entry.eng_tokens = text.eng_tokens
        /\ entry.num_tokens = text.numeric_tokens
        /\ entry.score = text.alnum_chars + (2 * entry.tokens) + (5 * entry.eng_tokens)

HistoryExact(history) == \A k \in DOMAIN history : EntryExact(history[k])

\* C11: every analysis _analyze_ocr_pdf produced (the best analysis of the job
\* thread and of the worker) has score = alnum_chars + 2 * token_count +
\* 5 * eng_token_count, and every attempt published in a page record, and the
\* record's best_score, carries the score of such an analysis.
C11_ScoreFormula ==
    /\ best.candidate # None => ScoreExact(best.analysis)
    /\ HistoryExact(attempts)
    /\ \A i \in Workers :
            worker[i].pc # "idle" =>
                /\ ScoreExact(worker[i].best_analysis)
                /\ HistoryExact(worker[i].attempts_local)
    /\ \A p \in DOMAIN job.page_details :
            LET detail == job.page_details[p]
            IN  /\ HistoryExact(detail.attempt_history)
                /\ detail.attempt_history # <<>> =>
                        \E k \in DOMAIN detail.attempt_history :
                            detail.best_score = detail.attempt_history[k].score

\* A done page whose record publishes primary and rescue attempts with a
\* positive best score built from engineering tokens.
C11_Witness ==
    \E p \in DOMAIN job.page_details :
        LET detail == job.page_details[p]
        IN  /\ detail.status = "done"
            /\ Len(detail.attempt_history) > Len(_build_page_profiles(settings))
            /\ detail.best_score > 0
            /\ \E k \in DOMAIN detail.attempt_history :
                    detail.attempt_history[k].eng_tokens > 0


\* ------------------------------------------- _candidate_selection_score

\* The texts of at most MaxCount characters and tokens of each kind.
SmallTexts ==
    {Text(alnum, tokens, eng, numeric) :
        alnum \in 0 .. MaxCount, tokens \in 0 .. MaxCount,
        eng \in 0 .. MaxCount, numeric \in 0 .. MaxCount}

SelectionScoreInit ==
    /\ IdleJob
    /\ settings = [drawing_mode |-> FALSE, deep_verify |-> FALSE]
    /\ calc \in {Call("_candidate_selection_score", _analyze_ocr_pdf(text)) :
                    text \in SmallTexts}

\* The selection score of one analysis in both modes.
SelectionScoreCall ==
    /\ Calling("_candidate_selection_score")
    /\ Return([drawing  |-> _candidate_selection_score(calc.arg, TRUE),
               standard |-> _candidate_selection_score(calc.arg, FALSE)])

SelectionScoreSpec == SelectionScoreInit /\ [][SelectionScoreCall]_vars

\* C12: the drawing-mode selection score is score + 65 eng + 30 numeric +
\* 2 tokens, the standard-mode one score + 20 eng + 8 numeric, and for an
\* analysis with a positive engineering, numeric or token count the first is
\* at least the second.
C12_DrawingScoreAtLeastStandard ==
    Returned("_candidate_selection_score") =>
        LET a == calc.arg
            out == calc.out[1]
        IN  /\ out.drawing = a.score + (65 * a.eng_token_count)
                             + (30 * a.numeric_token_count) + (2 * a.token_count)
            /\ out.standard = a.score + (20 * a.eng_token_count)
                              + (8 * a.numeric_token_count)
            /\ (a.eng_token_count > 0 \/ a.numeric_token_count > 0 \/ a.token_count > 0)
                    => out.drawing >= out.standard

\* Both scores of an analysis with engineering tokens have been computed.
C12_Witness ==
    /\ Returned("_candidate_selection_score")
    /\ calc.arg.eng_token_count > 0
    /\ calc.out[1].drawing > calc.out[1].standard


\* ---------------------------------------------------- _dedupe_word_boxes

\* A WordBox is the tuple <<left, top, width, height, text, conf>>; a text is
\* the sequence of its characters.
WordBox(left, top, width, height, text, conf) ==
    <<left, top, width, height, text, conf>>

\* [A-Za-z0-9] among the characters of the model's texts.
IsAsciiAlnum(ch) == ch \in {"a", "b", "A", "B", "T", "G", "0", "1"}

\* str.upper() on them.
Upper(ch) == CASE ch = "a" -> "A" [] ch = "b" -> "B" [] OTHER -> ch

\* re.sub(r"[^A-Za-z...0-9]", "", text).upper()
NormalizeBoxText(text) ==
    LET kept == SelectSeq(text, IsAsciiAlnum)
    IN  [k \in DOMAIN kept |-> Upper(kept[k])]

\* The values of a dict, in insertion order.
DictValues(d) == [k \in DOMAIN d |-> d[k][2]]

\* The loop of _dedupe_word_boxes over the boxes left, dedup being the dict
\* built so far.
RECURSIVE DedupeLoop(_, _)
DedupeLoop(dedup, boxes) ==
    IF boxes = <<>> THEN dedup
    ELSE LET box == Head(boxes)
             normalized == NormalizeBoxText(box[5])
             key == <<normalized, box[1] \div 6, box[2] \div 6>>
             absent == \A k \in DOMAIN dedup : dedup[k][1] # key
         IN  IF normalized = <<>> THEN DedupeLoop(dedup, Tail(boxes))
             ELSE IF absent \/ box[6] > DictGet(dedup, key)[6]
             THEN DedupeLoop(DictSet(dedup, key, box), Tail(boxes))
             ELSE DedupeLoop(dedup, Tail(boxes))

\* A variant of the loop in which a box of equal confidence replaces the one
\* kept for its key.
RECURSIVE DedupeLoopLastWins(_, _)
DedupeLoopLastWins(dedup, boxes) ==
    IF boxes = <<>> THEN dedup
    ELSE LET box == Head(boxes)
             normalized == NormalizeBoxText(box[5])
             key == <<normalized, box[1] \div 6, box[2] \div 6>>
             absent == \A k \in DOMAIN dedup : dedup[k][1] # key
         IN  IF normalized = <<>> THEN DedupeLoopLastWins(dedup, Tail(boxes))
             ELSE IF absent \/ box[6] >= DictGet(dedup, key)[6]
             THEN DedupeLoopLastWins(DictSet(dedup, key, box), Tail(boxes))
             ELSE DedupeLoopLastWins(dedup, Tail(boxes))

\* A variant that keeps the last of the boxes of equal confidence.
_dedupe_word_boxes_last_wins(boxes) == DictValues(DedupeLoopLastWins(<<>>, boxes))

\* A variant that returns the kept boxes newest first.
_dedupe_word_boxes_newest_first(boxes) ==
    LET kept == DictValues(DedupeLoop(<<>>, boxes))
    IN  [k \in DOMAIN kept |-> kept[Len(kept) + 1 - k]]

_dedupe_word_boxes(boxes) == DictValues(DedupeLoop(<<>>, boxes))

\* The sequences over S of length at most n.
SeqsUpTo(S, n) == UNION {[1 .. k -> S] : k \in 0 .. n}

\* Boxes that fall into the same or into neighbouring 6-pixel buckets, with
\* texts that normalize to the same token, to different tokens or to nothing.
DedupeBoxes ==
    {WordBox(left, 0, 20, 10, text, conf) :
        left \in {5, 6},
        text \in {<<"a", "-", "1">>, <<"A", "1">>, <<"#">>, <<"b">>},
        conf \in {50, 90}}

DedupeInit ==
    /\ IdleJob
    /\ settings = [drawing_mode |-> FALSE, deep_verify |-> FALSE]
    /\ calc \in {Call("_dedupe_word_boxes", boxes) :
                    boxes \in SeqsUpTo(DedupeBoxes, MaxBoxes)}

\* The list deduplicated once, and the result deduplicated again.
DedupeCall ==
    /\ Calling("_dedupe_word_boxes")
    /\ LET once == _dedupe_word_boxes(calc.arg)
       IN  Return([once |-> once, twice |-> _dedupe_word_boxes(once)])

DedupeSpec == DedupeInit /\ [][DedupeCall]_vars

\* C13: deduplicating an already deduplicated list of word boxes returns the
\* same boxes in the same order.
C13_DedupeIdempotent ==
    Returned("_dedupe_word_boxes") => calc.out[1].twice = calc.out[1].once

\* A list from which the first pass dropped a box and kept at least two.
C13_Witness ==
    /\ Returned("_dedupe_word_boxes")
    /\ Len(calc.out[1].once) >= 2
    /\ Len(calc.out[1].once) < Len(calc.arg)


\* ------------------------------------------------- _prepare_overlay_words

\* The characters _normalize_overlay_token keeps: [A-Za-z0-9./:_+\-#%()].
IsOverlayChar(ch) == IsAsciiAlnum(ch) \/ ch \in {"-", "#", ".", "/"}

\* _normalize_overlay_token on a text that contains none of the characters it
\* replaces and none of the engineering phrases it splits, and is shorter
\* than 96 characters: white space and foreign characters are dropped, and a
\* text without a letter or digit becomes empty.
_normalize_overlay_token(text) ==
    LET cleaned == SelectSeq(text, IsOverlayChar)
    IN  IF \E k \in DOMAIN cleaned : IsAsciiAlnum(cleaned[k]) THEN cleaned ELSE <<>>

\* (normalized, left // 5, top // 5)
OverlayKey(box) == <<_normalize_overlay_token(box[5]), box[1] \div 5, box[2] \div 5>>

\* The page and image sizes of a call.
Sizes(page_width, page_height, image_width, image_height) ==
    [page_width |-> page_width, page_height |-> page_height,
     image_width |-> image_width, image_height |-> image_height]

\* The word of a box in page coordinates; a float num / den is kept as the
\* exact fraction <<num, den>>, max(2.0, v) compared by cross multiplication.
OverlayWord(box, sizes) ==
    LET AtLeastTwo(num, den) == IF num >= 2 * den THEN <<num, den>> ELSE <<2, 1>>
    IN  << <<box[1] * sizes.page_width, sizes.image_width>>,
           <<(sizes.page_height * sizes.image_height)
                - ((box[2] + box[4]) * sizes.page_height), sizes.image_height>>,
           AtLeastTwo(box[3] * sizes.page_width, sizes.image_width),
           AtLeastTwo(box[4] * sizes.page_height, sizes.image_height),
           _normalize_overlay_token(box[5]) >>

\* sorted(..., reverse=True) keeps the input order of boxes of equal
\* confidence: a box goes behind the boxes that rank at least as high.
\* A variant that ranks the lowest confidence first.
RECURSIVE RankedLowestFirst(_)
RankedLowestFirst(boxes) ==
    IF boxes = <<>> THEN <<>>
    ELSE LET box == boxes[Len(boxes)]
             ranked == RankedLowestFirst(SubSeq(boxes, 1, Len(boxes) - 1))
         IN  SelectSeq(ranked, LAMBDA other : other[6] <= box[6]) \o <<box>>
             \o SelectSeq(ranked, LAMBDA other : other[6] > box[6])

\* sorted(boxes, key=lambda item: item[5], reverse=True)
RECURSIVE RankedBoxes(_)
RankedBoxes(boxes) ==
    IF boxes = <<>> THEN <<>>
    ELSE LET box == boxes[Len(boxes)]
             ranked == RankedBoxes(SubSeq(boxes, 1, Len(boxes) - 1))
         IN  SelectSeq(ranked, LAMBDA other : other[6] >= box[6]) \o <<box>>
             \o SelectSeq(ranked, LAMBDA other : other[6] < box[6])

\* The loop of _prepare_overlay_words over the ranked boxes left, which stops
\* when `limit` words are selected.
RECURSIVE SelectOverlayWords(_, _, _, _, _)
SelectOverlayWords(selected, seen, ranked, sizes, limit) ==
    IF ranked = <<>> THEN selected
    ELSE LET box == Head(ranked)
             key == OverlayKey(box)
         IN  IF box[6] < 15 \/ key[1] = <<>> \/ key \in seen
             THEN SelectOverlayWords(selected, seen, Tail(ranked), sizes, limit)
             ELSE IF Len(selected) + 1 >= limit
             THEN Append(selected, OverlayWord(box, sizes))
             ELSE SelectOverlayWords(Append(selected, OverlayWord(box, sizes)),
                                     seen \cup {key}, Tail(ranked), sizes, limit)

\* _prepare_overlay_words with the limit of its loop as a parameter.
PrepareOverlayWords(boxes, sizes, limit) ==
    IF \/ sizes.image_width <= 0 \/ sizes.image_height <= 0
       \/ sizes.page_width <= 0 \/ sizes.page_height <= 0
    THEN <<>>
    ELSE SelectOverlayWords(<<>>, {}, RankedBoxes(boxes), sizes, limit)

\* if len(selected) >= 3500: break
overlay_word_limit == 3500

_prepare_overlay_words(boxes, sizes) ==
    PrepareOverlayWords(boxes, sizes, overlay_word_limit)

TagText == <<"T", "A", "G", "-", "1", "0", "1">>
TagBox90 == WordBox(10, 10, 20, 10, TagText, 90)
TagBox80 == WordBox(11, 10, 20, 10, TagText, 80)
HashBox  == WordBox(30, 20, 10, 8, <<"#", "#", "#">>, 95)

\* Boxes in the same and in neighbouring 5-pixel buckets, with a confidence
\* below and above 15, with a text with and without a letter or digit.
OverlayBoxes ==
    {WordBox(left, 10, 20, 10, text, conf) :
        left \in {10, 11, 15}, text \in {TagText, <<"#", " ", "/">>},
        conf \in {10, 80, 90}}
    \cup {HashBox}

TestSizes == Sizes(100, 200, 50, 100)

\* The calls of the model: the page and image of the unit test with the
\* limit of the code and with a limit short lists reach, and an empty image.
PrepareOverlayInit ==
    /\ IdleJob
    /\ settings = [drawing_mode |-> TRUE, deep_verify |-> TRUE]
    /\ \E boxes \in SeqsUpTo(OverlayBoxes, MaxOverlayBoxes) :
        \E call \in {[sizes |-> TestSizes, limit |-> overlay_word_limit],
                     [sizes |-> TestSizes, limit |-> 2],
                     [sizes |-> Sizes(100, 200, 0, 100), limit |-> overlay_word_limit]} :
            calc = Call("_prepare_overlay_words",
                        [boxes |-> boxes, sizes |-> call.sizes, limit |-> call.limit])

PrepareOverlayCall ==
    /\ Calling("_prepare_overlay_words")
    /\ Return(PrepareOverlayWords(calc.arg.boxes, calc.arg.sizes, calc.arg.limit))

PrepareOverlaySpec == PrepareOverlayInit /\ [][PrepareOverlayCall]_vars

ClampedBox(mapped_left, mapped_top, box, original_width, original_height) ==
    LET clamped_left == Max(0, Min(original_width - 1, mapped_left))
        clamped_top == Max(0, Min(original_height - 1, mapped_top))
    IN  WordBox(clamped_left, clamped_top,
                Max(1, Min(box[4], original_width - clamped_left)),
                Max(1, Min(box[3], original_height - clamped_top)),
                box[5], box[6])

\* A variant that keeps width and height as they are.
_map_rotated_box_to_original_unswapped(box, original_width, original_height, angle) ==
    LET kept == WordBox(box[1], box[2], box[4], box[3], box[5], box[6])
    IN  IF angle = 90
        THEN ClampedBox(original_width - (box[2] + box[4]), box[1], kept,
                        original_width, original_height)
        ELSE IF angle = 270
        THEN ClampedBox(box[2], original_height - (box[1] + box[3]), kept,
                        original_width, original_height)
        ELSE None

\* A variant that maps the top edge instead of the bottom edge.
_map_rotated_box_to_original_top_edge(box, original_width, original_height, angle) ==
    IF angle = 90
    THEN ClampedBox(original_width - box[2], box[1], box,
                    original_width, original_height)
    ELSE IF angle = 270
    THEN ClampedBox(box[2], original_height - box[1], box,
                    original_width, original_height)
    ELSE None

_map_rotated_box_to_original(box, original_width, original_height, angle) ==
    IF angle = 90
    THEN ClampedBox(original_width - (box[2] + box[4]), box[1], box,
                    original_width, original_height)
    ELSE IF angle = 270
    THEN ClampedBox(box[2], original_height - (box[1] + box[3]), box,
                    original_width, original_height)
    ELSE None

\* The box and image of the unit test.
TestRotatedBox == WordBox(10, 20, 30, 40, <<"T">>, 88)

RotateCall(box, original_width, original_height, angle) ==
    Call("_map_rotated_box_to_original",
         [box |-> box, original_width |-> original_width,
          original_height |-> original_height, angle |-> angle])

RotateInit ==
    /\ IdleJob
    /\ settings = [drawing_mode |-> TRUE, deep_verify |-> TRUE]
    /\ \/ \E left, top, width, height \in 0 .. MaxCoord :
            \E original_width, original_height \in 1 .. MaxCoord + 1 :
                \E angle \in {90, 180, 270} :
                    calc = RotateCall(WordBox(left, top, width, height, <<"T">>, 88),
                                      original_width, original_height, angle)
       \/ \E angle \in {90, 270} : calc = RotateCall(TestRotatedBox, 200, 100, angle)

\* The opposite quarter turn.
Opposite(angle) == 360 - angle

\* The box mapped to the original image, and the result mapped with the
\* opposite angle: with the same original size, and with width and height of
\* the image exchanged.
RotateApply ==
    /\ Calling("_map_rotated_box_to_original")
    /\ LET a == calc.arg
           mapped == _map_rotated_box_to_original(
                        a.box, a.original_width, a.original_height, a.angle)
       IN  Return([mapped |-> mapped,
                   back_same |->
                        IF mapped = None THEN None
                        ELSE _map_rotated_box_to_original(
                                mapped, a.original_width, a.original_height,
                                Opposite(a.angle)),
                   back_swapped |->
                        IF mapped = None THEN None
                        ELSE _map_rotated_box_to_original(
                                mapped, a.original_height, a.original_width,
                                Opposite(a.angle))])

RotateSpec == RotateInit /\ [][RotateApply]_vars

\* C15: for angle 90 the mapped box has x = W - (top + height), y = left, for
\* angle 270 x = top, y = H - (left + width), width and height exchanged, each
\* clamped so that 0 <= x <= W - 1, 0 <= y <= H - 1, width >= 1, height >= 1,
\* x + width <= W, y + height <= H; text and confidence are those of the box;
\* (10,20,30,40) on 200 x 100 maps to (140,10,40,30) and (20,60,40,30).
C15_RotationMapping ==
    (Returned("_map_rotated_box_to_original") /\ calc.arg.angle \in {90, 270}) =>
        LET a == calc.arg
            W == a.original_width
            H == a.original_height
            box == a.box
            m == calc.out[1].mapped
            x == IF a.angle = 90 THEN W - (box[2] + box[4]) ELSE box[2]
            y == IF a.angle = 90 THEN box[1] ELSE H - (box[1] + box[3])
        IN  /\ m # None
            /\ 0 <= m[1] /\ m[1] <= W - 1
            /\ 0 <= m[2] /\ m[2] <= H - 1
            /\ m[3] >= 1 /\ m[4] >= 1
            /\ m[1] + m[3] <= W /\ m[2] + m[4] <= H
            /\ m[5] = box[5] /\ m[6] = box[6]
            /\ (0 <= x /\ x <= W - 1) => m[1] = x
            /\ x < 0 => m[1] = 0
            /\ x > W - 1 => m[1] = W - 1
            /\ (0 <= y /\ y <= H - 1) => m[2] = y
            /\ y < 0 => m[2] = 0
            /\ y > H - 1 => m[2] = H - 1
            /\ (box[4] >= 1 /\ m[1] + box[4] <= W) => m[3] = box[4]
            /\ (box[3] >= 1 /\ m[2] + box[3] <= H) => m[4] = box[3]
            /\ (box = TestRotatedBox /\ W = 200 /\ H = 100) =>
                    m = IF a.angle = 90
                        THEN WordBox(140, 10, 40, 30, <<"T">>, 88)
                        ELSE WordBox(20, 60, 40, 30, <<"T">>, 88)

\* The box of the unit test has been mapped for angle 270.
C15_Witness ==
    /\ Returned("_map_rotated_box_to_original")
    /\ calc.arg.box = TestRotatedBox /\ calc.arg.angle = 270
    /\ calc.out[1].mapped = WordBox(20, 60, 40, 30, <<"T">>, 88)

\* Equal up to rounding: no coordinate or extent differs by more than 1.
ApproxEqualBox(a, b) ==
    /\ a # None /\ b # None
    /\ \A k \in 1 .. 4 : a[k] - b[k] \in -1 .. 1
    /\ a[5] = b[5] /\ a[6] = b[6]

\* The box lies inside the rotated image, which is original_height wide and
\* original_width high.
InsideRotatedImage(a) ==
    /\ a.box[3] >= 1 /\ a.box[4] >= 1
    /\ a.box[1] >= 0 /\ a.box[1] + a.box[3] <= a.original_height
    /\ a.box[2] >= 0 /\ a.box[2] + a.box[4] <= a.original_width

Near(threshold) == (threshold - Margin) .. (threshold + Margin)

\* An analysis with the given score and engineering-token count.
AnalysisOf(score, eng) ==
    [score |-> score, alnum_chars |-> score - (5 * eng), token_count |-> 0,
     eng_token_count |-> eng, numeric_token_count |-> 0]

\* The coverage dict with only the keys in `present`.
Restrict(coverage, present) == [key \in present |-> coverage[key]]

\* The coverage dicts of the decisions: complete, empty, without
\* combined_words, and without full_words and gain_ratio.
CoverageKeys ==
    {{"full_words", "tile_words", "combined_words", "gain_ratio"},
     {},
     {"full_words", "tile_words", "gain_ratio"},
     {"tile_words", "combined_words"}}

RescueScores == Near(120) \cup Near(420) \cup Near(700) \cup {50, 200}

RescueInit ==
    /\ IdleJob
    /\ settings \in [drawing_mode : BOOLEAN, deep_verify : BOOLEAN]
    /\ \E score \in RescueScores, eng \in Near(8) :
        \E lower \in {v \in RescueScores : v <= score} :
            \E tile \in Near(25) \cup Near(40), combined \in Near(55) :
                \E gain \in {<<34, 100>>, <<7, 20>>, <<3, 1>>}, present \in CoverageKeys :
                    calc = Call("_should_run_rescue_pass",
                                [analysis |-> AnalysisOf(score, eng),
                                 lower |-> lower,
                                 coverage |->
                                    Restrict([full_words |-> 10, tile_words |-> tile,
                                              combined_words |-> combined,
                                              gain_ratio |-> gain], present)])

\* The decision for the analysis, and for the same analysis with the lower
\* score.
RescueDecision ==
    /\ Calling("_should_run_rescue_pass")
    /\ Return([rescue |->
                    _should_run_rescue_pass(calc.arg.analysis, calc.arg.coverage, settings),
               rescue_lower |->
                    _should_run_rescue_pass(
                        [calc.arg.analysis EXCEPT !.score = calc.arg.lower],
                        calc.arg.coverage, settings)])

RescueSpec == RescueInit /\ [][RescueDecision]_vars

\* C17: with the coverage, the settings and the other counts of the analysis
\* the same, a rescue pass triggered for a score is triggered for every lower
\* score.
C17_RescueMonotonicInScore ==
    Returned("_should_run_rescue_pass") =>
        (calc.out[1].rescue => calc.out[1].rescue_lower)

\* In drawing mode the rescue is triggered by the gain rule at a score of at
\* least 420, and at the lower score too.
C17_Witness ==
    /\ Returned("_should_run_rescue_pass")
    /\ settings.drawing_mode /\ settings.deep_verify
    /\ calc.arg.analysis.score >= 420
    /\ calc.arg.analysis.eng_token_count >= 8
    /\ calc.arg.lower < calc.arg.analysis.score
    /\ calc.arg.lower >= 420
    /\ "combined_words" \in DOMAIN calc.arg.coverage
    /\ calc.arg.coverage.combined_words >= 55
    /\ calc.out[1].rescue /\ calc.out[1].rescue_lower

\* C18: the rescue pass is decided exactly when deep verification is on and,
\* in drawing mode, score < 420, or eng_tokens < 8 with tile words >= 25, or
\* combined words < 55, or tile words - full words >= 30 with gain ratio >=
\* 0.35 and score < 700; in standard mode, score < 120. Absent coverage
\* fields count as 0, combined words as the tile words.
C18_RescueThresholds ==
    Returned("_should_run_rescue_pass") =>
        LET a == calc.arg.analysis
            c == calc.arg.coverage
            full == IF "full_words" \in DOMAIN c THEN c.full_words ELSE 0
            tile == IF "tile_words" \in DOMAIN c THEN c.tile_words ELSE 0
            combined == IF "combined_words" \in DOMAIN c THEN c.combined_words ELSE tile
            gain_at_least_035 ==
                "gain_ratio" \in DOMAIN c /\ 20 * c.gain_ratio[1] >= 7 * c.gain_ratio[2]
            expected ==
                /\ settings.deep_verify
                /\ IF settings.drawing_mode
                   THEN \/ a.score < 420
                        \/ a.eng_token_count < 8 /\ tile >= 25
                        \/ combined < 55
                        \/ tile - full >= 30 /\ gain_at_least_035 /\ a.score < 700
                   ELSE a.score < 120
        IN  /\ calc.out[1].rescue <=> expected
            /\ (settings.deep_verify /\ ~settings.drawing_mode /\ a.score = 50)
                    => calc.out[1].rescue
            /\ (~settings.drawing_mode /\ a.score = 200) => ~calc.out[1].rescue

\* In drawing mode only the gain rule triggers the rescue: the score is
\* between 420 and 700, there are 8 engineering tokens and 55 combined words.
C18_Witness ==
    /\ Returned("_should_run_rescue_pass")
    /\ settings.drawing_mode /\ settings.deep_verify
    /\ calc.arg.analysis.score >= 420
    /\ calc.arg.analysis.eng_token_count >= 8
    /\ "combined_words" \in DOMAIN calc.arg.coverage
    /\ calc.arg.coverage.combined_words >= 55
    /\ "full_words" \in DOMAIN calc.arg.coverage
    /\ calc.arg.coverage.tile_words = 40
    /\ calc.arg.coverage.gain_ratio = <<7, 20>>
    /\ calc.out[1].rescue


\* ------------------------------------------------- _needs_manual_review

\* The injected word and line counts of the decisions.
InjectedCounts == {<<0, 0>>, <<120, 0>>, <<0, 20>>, <<119, 19>>}

ReviewInit ==
    /\ IdleJob
    /\ settings \in {[drawing_mode |-> drawing_mode, deep_verify |-> TRUE] :
                        drawing_mode \in BOOLEAN}
    /\ \E score \in Near(120) \cup Near(260) \cup {500}, eng \in Near(6) :
        \E tile \in Near(20),
           combined \in {30} \cup Near(40) \cup Near(80) \cup Near(120) :
            \E gain \in {<<6, 5>>, <<13, 10>>, <<0, 1>>}, present \in CoverageKeys :
                \E injected \in InjectedCounts :
                    calc = Call("_needs_manual_review",
                                [best_analysis |-> AnalysisOf(score, eng),
                                 coverage |->
                                    Restrict([full_words |-> 10, tile_words |-> tile,
                                              combined_words |-> combined,
                                              gain_ratio |-> gain], present),
                                 augmented_words |-> injected[1],
                                 fallback_lines |-> injected[2]])

\* The decision of _needs_manual_review, and the needs_review the worker
\* reports for the page after the injections.
ReviewDecision ==
    /\ Calling("_needs_manual_review")
    /\ Return([review |->
                    _needs_manual_review(calc.arg.best_analysis, calc.arg.coverage,
                                         settings),
               needs_review |-> FinalNeedsReview(calc.arg)])

ReviewSpec == ReviewInit /\ [][ReviewDecision]_vars

\* C19: in drawing mode a page whose coverage has combined_words < 40 is
\* flagged needs_review whatever the other metrics and the injected word and
\* line counts; and review is decided exactly when, in drawing mode, score <
\* 260, or eng_tokens < 6 with tile words < 20, or combined words < 40, or
\* gain ratio > 1.2 with combined words < 120, in standard mode score < 120.
C19_ReviewThresholds ==
    Returned("_needs_manual_review") =>
        LET a == calc.arg.best_analysis
            c == calc.arg.coverage
            tile == IF "tile_words" \in DOMAIN c THEN c.tile_words ELSE 0
            combined == IF "combined_words" \in DOMAIN c THEN c.combined_words ELSE tile
            gain_above_12 ==
                "gain_ratio" \in DOMAIN c /\ 5 * c.gain_ratio[1] > 6 * c.gain_ratio[2]
            expected ==
                IF settings.drawing_mode
                THEN \/ a.score < 260
                     \/ a.eng_token_count < 6 /\ tile < 20
                     \/ combined < 40
                     \/ gain_above_12 /\ combined < 120
                ELSE a.score < 120
        IN  /\ calc.out[1].review <=> expected
            /\ (/\ settings.drawing_mode
                /\ "combined_words" \in DOMAIN c
                /\ c.combined_words < 40)
                    => calc.out[1].review /\ calc.out[1].needs_review

\* A drawing-mode page with 30 combined words, a high score, enough
\* engineering tokens and 120 injected words is flagged.
C19_Witness ==
    /\ Returned("_needs_manual_review")
    /\ settings.drawing_mode
    /\ "combined_words" \in DOMAIN calc.arg.coverage
    /\ calc.arg.coverage.combined_words = 30
    /\ calc.arg.best_analysis.score = 500
    /\ calc.arg.best_analysis.eng_token_count >= 6
    /\ calc.arg.augmented_words = 120
    /\ calc.out[1].needs_review


\* ------------------------------------------------------- attempt history

IsPrefix(short, long) ==
    Len(short) <= Len(long) /\ \A k \in DOMAIN short : long[k] = short[k]

\* The profile names of a complete history: the primary profiles in
\* configured order, then the rescue profile, the secondary rescue profile,
\* both in this order, or neither.
PrimaryNames == _build_page_profiles(settings)

RescueTails ==
    {<<>>, <<_build_rescue_profile(settings)>>,
     <<_build_secondary_rescue_profile(settings)>>,
     <<_build_rescue_profile(settings), _build_secondary_rescue_profile(settings)>>}

HistoryWellFormed(history) ==
    /\ \A k \in DOMAIN history : history[k].attempt = k
    /\ \E tail \in RescueTails :
            IsPrefix([k \in DOMAIN history |-> history[k].profile],
                     PrimaryNames \o tail)
    /\ Len(history) > Len(PrimaryNames) =>
            \E tail \in RescueTails :
                [k \in DOMAIN history |-> history[k].profile] = PrimaryNames \o tail

PublishedHistoriesWellFormed ==
    \A p \in DOMAIN job.page_details :
        /\ HistoryWellFormed(job.page_details[p].attempt_history)
        /\ PageStatus(p) \in {"verifying", "done"} =>
                Len(job.page_details[p].attempt_history) >= Len(PrimaryNames)

PublishedHistoriesExtend ==
    \A p \in DOMAIN job.page_details :
        /\ p \in DOMAIN job'.page_details
        /\ IsPrefix(job.page_details[p].attempt_history,
                    job'.page_details[p].attempt_history)

\* C20: every attempt history published for a page extends the one published
\* before; its attempts are numbered 1..k in order; it is a prefix of the
\* primary profiles in configured order followed by 0 to 2 rescue attempts
\* (rescue before secondary rescue), and holds every primary attempt once the
\* page is verifying or done.
C20_HistoryAppendOnly ==
    /\ []PublishedHistoriesWellFormed
    /\ [][PublishedHistoriesExtend]_vars

\* A done drawing-mode page publishes its three primary attempts followed by
\* the rescue and the secondary rescue attempt.
C20_Witness ==
    \E p \in DOMAIN job.page_details :
        /\ PageStatus(p) = "done"
        /\ Len(PrimaryNames) = 3
        /\ Len(job.page_details[p].attempt_history) = 5


\* ------------------------------------------------ the best candidate of a page

\* The index of the first attempt of a history that has its highest
\* selection score.
FirstBest(history) ==
    CHOOSE k \in DOMAIN history :
        /\ \A j \in DOMAIN history :
                history[j].selection_score <= history[k].selection_score
        /\ \A j \in 1 .. k - 1 :
                history[j].selection_score < history[k].selection_score

\* C21: when the primary attempts of a page are over, one attempt was made for
\* each configured profile and the best candidate is the attempt with the
\* highest selection score, the earliest one if several attempts share it.
C21_BestPrimaryAttempt ==
    pc \in {"mark_verifying", "submit"} =>
        /\ Len(attempts) = Len(_build_page_profiles(settings))
        /\ LET k == FirstBest(attempts)
           IN  /\ best.candidate = Some(<<current_page, "try", k>>)
               /\ best.profile = _build_page_profiles(settings)[k]
               /\ best.profile = attempts[k].profile
               /\ best.selection_score = attempts[k].selection_score
               /\ best.analysis.score = attempts[k].score

\* The second and the third attempt share the highest selection score and the
\* first one is lower: the second is kept.
C21_Witness ==
    /\ pc = "submit"
    /\ Len(attempts) = 3
    /\ attempts[1].selection_score < attempts[2].selection_score
    /\ attempts[3].selection_score = attempts[2].selection_score
    /\ best.profile = "draw-lines-b"

\* The record of a done page reports the first attempt of its history that has
\* the highest selection score.
DoneReportsFirstBest ==
    \A p \in DOMAIN job.page_details :
        LET rec == job.page_details[p]
            k == FirstBest(rec.attempt_history)
        IN  rec.status = "done" =>
                /\ rec.attempt_history # <<>>
                /\ rec.best_selection_score = rec.attempt_history[k].selection_score
                /\ rec.best_profile = rec.attempt_history[k].profile
                /\ rec.best_score = rec.attempt_history[k].score

\* A step of a rescue or secondary rescue pass that changes the best candidate
\* raises the best selection score.
RescueReplacesOnlyByBetter ==
    \A i \in Workers :
        (/\ worker[i].pc \in {"rescue_ocr", "secondary_ocr"}
         /\ worker'[i].pc \in {"secondary_ocr", "review"}
         /\ worker'[i].best_candidate # worker[i].best_candidate)
        => /\ worker'[i].best_selection_score > worker[i].best_selection_score
           /\ worker'[i].best_selection_score =
                worker'[i].attempts_local[Len(worker'[i].attempts_local)].selection_score

\* C22: a rescue or secondary rescue candidate replaces the best only when its
\* selection score is strictly greater, and every done page reports the
\* highest selection score of its attempt history with the profile and the
\* score of the first attempt that has it.
C22_BestOverWholeHistory ==
    []DoneReportsFirstBest /\ [][RescueReplacesOnlyByBetter]_vars

\* A done page whose rescue attempt equalled the best primary attempt, which
\* was kept, and whose secondary rescue attempt beat it.
C22_Witness ==
    \E p \in DOMAIN job.page_details :
        LET rec == job.page_details[p]
        IN  /\ rec.status = "done"
            /\ Len(rec.attempt_history) = 5
            /\ rec.attempt_history[4].selection_score =
                    rec.attempt_history[FirstBest(SubSeq(rec.attempt_history, 1, 3))].selection_score
            /\ rec.attempt_history[5].selection_score >
                    rec.attempt_history[4].selection_score
            /\ rec.best_profile = "draw-rescue-2"


\* --------------------------------------------- the boxes _dedupe_word_boxes keeps

\* The key of a box: its text without the characters that are not letters or
\* digits, in upper case, and the 6-pixel buckets of its left and top edge.
DedupeKey(box) == <<NormalizeBoxText(box[5]), box[1] \div 6, box[2] \div 6>>

\* The position in boxes of the box to keep for a key: the first of those with
\* the highest confidence among the boxes with that key.
FirstMostConfident(boxes, key) ==
    CHOOSE k \in DOMAIN boxes :
        /\ DedupeKey(boxes[k]) = key
        /\ \A j \in DOMAIN boxes :
                DedupeKey(boxes[j]) = key => boxes[j][6] <= boxes[k][6]
        /\ \A j \in 1 .. k - 1 :
                DedupeKey(boxes[j]) = key => boxes[j][6] < boxes[k][6]

\* C23: _dedupe_word_boxes returns exactly one box for each key of an input
\* box with a non-empty normalized text, namely the first input box of the
\* highest confidence with that key; it returns no box with an empty
\* normalized text and no box that was not in the input.
C23_DedupeKeepsBestPerKey ==
    Returned("_dedupe_word_boxes") =>
        LET boxes == calc.arg
            kept == calc.out[1].once
        IN  /\ \A k \in DOMAIN boxes :
                    DedupeKey(boxes[k])[1] # <<>> =>
                        /\ Cardinality({j \in DOMAIN kept :
                                DedupeKey(kept[j]) = DedupeKey(boxes[k])}) = 1
                        /\ \E j \in DOMAIN kept :
                                kept[j] = boxes[FirstMostConfident(boxes, DedupeKey(boxes[k]))]
            /\ \A j \in DOMAIN kept :
                    /\ DedupeKey(kept[j])[1] # <<>>
                    /\ \E k \in DOMAIN boxes : boxes[k] = kept[j]

\* Two different boxes with the same key and the same confidence, followed by
\* a box without letters or digits: only the first is kept.
C23_Witness ==
    /\ Returned("_dedupe_word_boxes")
    /\ Len(calc.arg) = 3
    /\ calc.arg[1] # calc.arg[2]
    /\ DedupeKey(calc.arg[1]) = DedupeKey(calc.arg[2])
    /\ calc.arg[1][6] = calc.arg[2][6]
    /\ DedupeKey(calc.arg[3])[1] = <<>>
    /\ calc.out[1].once = <<calc.arg[1]>>


\* ------------------------------------------------- the secondary rescue pass

\* The positions in a history of the attempts made with a profile.
AttemptsWith(history, profile) ==
    {k \in DOMAIN history : history[k].profile = profile}

\* The secondary rescue attempt is made at most once, and after every other
\* attempt of the page.
SecondaryOnceAndLast(history) ==
    \A k \in AttemptsWith(history, _build_secondary_rescue_profile(settings)) :
        k = Len(history)

\* C24: the secondary rescue pass runs only with deep verification, only if
\* the best candidate left by the primary rescue stage needs manual review
\* and, in drawing mode, only if that candidate has score < 300 or
\* eng_tokens < 6 or combined words < 45; it runs after the primary rescue
\* decision and at most once for a page.
C24_SecondaryRescueGate ==
    \A i \in Workers :
        /\ worker[i].pc = "secondary_ocr" =>
            LET w == worker[i]
            IN  /\ settings.deep_verify
                /\ _needs_manual_review(w.best_analysis, w.coverage, settings)
                /\ settings.drawing_mode =>
                        \/ w.best_analysis.score < 300
                        \/ w.best_analysis.eng_token_count < 6
                        \/ w.coverage.combined_words < 45
                /\ AttemptsWith(w.attempts_local,
                                _build_secondary_rescue_profile(settings)) = {}
                /\ \/ AttemptsWith(w.attempts_local,
                                    _build_rescue_profile(settings)) # {}
                   \/ ~_should_run_rescue_pass(w.best_analysis, w.coverage, settings)
        /\ worker[i].pc \notin {"idle", "secondary_ocr"} =>
                SecondaryOnceAndLast(worker[i].attempts_local)

\* In drawing mode the secondary rescue pass is about to run for a candidate
\* with a score of 300 or more, after the primary rescue pass has run.
C24_Witness ==
    \E i \in Workers :
        /\ worker[i].pc = "secondary_ocr"
        /\ settings.drawing_mode
        /\ worker[i].best_analysis.score >= 300
        /\ Len(worker[i].attempts_local) = 4


\* --------------------------------------------- needs_review of a finished page

\* The worker returns a result whose needs_review is the manual-review
\* determination on its final best candidate and coverage, cleared by enough
\* injected words or lines.
ReturnedNeedsReview ==
    \A i \in Workers :
        worker[i].pc = "return" /\ worker'[i].pc = "idle" =>
            LET w == worker[i]
                result == futures'[w.page_number].result[1]
                review == _needs_manual_review(w.best_analysis, w.coverage, settings)
                cleared ==
                    \/ w.augmented_words >= 120 /\ w.coverage.combined_words >= 120
                    \/ w.fallback_lines >= 20 /\ w.coverage.combined_words >= 80
            IN  /\ futures'[w.page_number].state = "returned"
                /\ result.augmented_words = w.augmented_words
                /\ result.fallback_lines = w.fallback_lines
                /\ result.needs_review <=> (review /\ ~cleared)

\* The record of a done page carries the needs_review of the result.
DoneReportsNeedsReview ==
    \A p \in DOMAIN job.page_details :
        job.page_details[p].status = "done" =>
            /\ futures[p].state = "returned"
            /\ job.page_details[p].needs_review = futures[p].result[1].needs_review

\* C25: the needs_review reported for a finished page is the manual-review
\* determination on the final best candidate and the coverage of the page,
\* cleared exactly when injected words >= 120 with combined words >= 120 or
\* injected lines >= 20 with combined words >= 80.
C25_NeedsReviewOfFinishedPage ==
    []DoneReportsNeedsReview /\ [][ReturnedNeedsReview]_vars

\* A done page whose best score is below 260 and whose flag was cleared by
\* exactly 120 injected words.
C25_Witness ==
    \E p \in DOMAIN job.page_details :
        LET rec == job.page_details[p]
        IN  /\ rec.status = "done"
            /\ rec.best_score < 260
            /\ rec.augmented_words = 120
            /\ rec.fallback_lines = 0
            /\ ~rec.needs_review


\* ------------------------------------------- _extract_word_boxes_rotated

\* A variant that compares with the product itself, without int().
KeepsVerticalUntruncated(mapped_box) == mapped_box[4] * 100 >= mapped_box[3] * 115

\* `if mapped_height < int(mapped_width * 1.15): continue` (1730-1733). For a
\* width below 100 the double product truncates to the integer part of
\* 115 * width / 100.
KeepsVertical(mapped_box) == ~(mapped_box[4] < (mapped_box[3] * 115) \div 100)

\* The loop over the boxes detected on the rotated image (1714-1735).
_extract_word_boxes_rotated(rotated_boxes, original_width, original_height, angle, keep_vertical_only) ==
    IF angle \notin {90, 270} THEN "ValueError"
    ELSE LET mapped_box(k) ==
                _map_rotated_box_to_original(rotated_boxes[k], original_width,
                                             original_height, angle)
             kept == {k \in DOMAIN rotated_boxes :
                        /\ mapped_box(k) # None
                        /\ keep_vertical_only => KeepsVertical(mapped_box(k))}
             Order[n \in 0 .. Len(rotated_boxes)] ==
                IF n = 0 THEN <<>>
                ELSE IF n \in kept THEN Append(Order[n - 1], mapped_box(n))
                ELSE Order[n - 1]
         IN  Order[Len(rotated_boxes)]

\* Boxes that map to the widths 7, 10 and 20 with heights around 1.15 times
\* the width.
ThresholdBoxes ==
    {WordBox(0, 0, 7, 7, <<"T">>, 88), WordBox(0, 0, 8, 7, <<"T">>, 88),
     WordBox(0, 0, 9, 7, <<"T">>, 88), WordBox(0, 0, 10, 10, <<"T">>, 88),
     WordBox(0, 0, 11, 10, <<"T">>, 88), WordBox(0, 0, 12, 10, <<"T">>, 88),
     WordBox(0, 0, 22, 20, <<"T">>, 88), WordBox(0, 0, 23, 20, <<"T">>, 88)}

\* The detector returns boxes of positive width and height inside the rotated
\* image, whose size is original_height x original_width.
VerticalInit ==
    /\ IdleJob
    /\ settings = [drawing_mode |-> TRUE, deep_verify |-> TRUE]
    /\ \E angle \in {90, 270} :
        \/ \E left, top \in 0 .. MaxCoord, width, height \in 1 .. MaxCoord :
            \E original_width, original_height \in 1 .. MaxCoord + 1 :
                /\ left + width <= original_height
                /\ top + height <= original_width
                /\ calc = Call("_extract_word_boxes_rotated",
                        [rotated_boxes |-> <<WordBox(left, top, width, height, <<"T">>, 88)>>,
                         original_width |-> original_width,
                         original_height |-> original_height,
                         angle |-> angle, keep_vertical_only |-> TRUE])
        \/ \E first, second \in ThresholdBoxes :
                calc = Call("_extract_word_boxes_rotated",
                        [rotated_boxes |-> <<first, second>>,
                         original_width |-> 50, original_height |-> 50,
                         angle |-> angle, keep_vertical_only |-> TRUE])

VerticalCall ==
    /\ Calling("_extract_word_boxes_rotated")
    /\ Return(_extract_word_boxes_rotated(calc.arg.rotated_boxes,
                calc.arg.original_width, calc.arg.original_height, calc.arg.angle,
                calc.arg.keep_vertical_only))

VerticalSpec == VerticalInit /\ [][VerticalCall]_vars

\* The boxes of the call mapped back to the original orientation, in order.
MappedBoxes ==
    [k \in DOMAIN calc.arg.rotated_boxes |->
        _map_rotated_box_to_original(calc.arg.rotated_boxes[k],
            calc.arg.original_width, calc.arg.original_height, calc.arg.angle)]

\* The sub-sequence of the mapped boxes that satisfy Keep(box).
VerticalRuns(Keep(_)) == SelectSeq(MappedBoxes, Keep)

\* C26 as stated: the vertical-text scan keeps exactly the mapped boxes whose
\* height is at least 1.15 times their width.
C26_KeepsHeightAtLeast115Width ==
    Returned("_extract_word_boxes_rotated") =>
        LET Tall(box) == box[4] * 100 >= box[3] * 115
        IN  calc.out[1] = VerticalRuns(Tall)

\* C26, amended: the scan keeps exactly the mapped boxes whose height is at
\* least 1.15 times their width with the fraction dropped, that is those with
\* height + 1 > 1.15 * width.
C26_KeepsHeightAtLeastTruncated ==
    Returned("_extract_word_boxes_rotated") =>
        LET AlmostTall(box) == (box[4] + 1) * 100 > box[3] * 115
        IN  calc.out[1] = VerticalRuns(AlmostTall)

\* Of two boxes mapped to 10 x 11 and 10 x 10, the first is kept although
\* 11 < 11.5, and the second is discarded.
C26_Witness ==
    /\ Returned("_extract_word_boxes_rotated")
    /\ Len(MappedBoxes) = 2
    /\ MappedBoxes[1][3] = 10 /\ MappedBoxes[1][4] = 11
    /\ MappedBoxes[2][3] = 10 /\ MappedBoxes[2][4] = 10
    /\ calc.out[1] = <<MappedBoxes[1]>>


\* ------------------------------------------------- the status error of a page

\* An invocation made for page p has failed: one of its primary OCR attempts
\* or a step of its verification.
OwnProcessingFailed(p) == \E f \in failed : f.page = p

\* C27: a page's status becomes error only when that page's own processing
\* failed; the failure of another page's verification or of the final merge
\* does not change the status of a page that is verifying or done.
C27_ErrorOnlyForOwnFailure ==
    [][\A p \in DOMAIN job.page_details :
            (PageStatus(p) # "error" /\ job.page_details'[p].status = "error")
                => OwnProcessingFailed(p)]_vars


\* ------------------------------------------------ consistency of a snapshot

\* A snapshot has one page record for each of its total_pages, and its
\* completed_pages are ascending, without duplicates, pages of 1..total_pages.
ConsistentSnapshot(snapshot) ==
    /\ Len(snapshot.page_details) = snapshot.total_pages
    /\ \A k \in DOMAIN snapshot.completed_pages :
            /\ snapshot.completed_pages[k] \in 1 .. snapshot.total_pages
            /\ k > 1 => snapshot.completed_pages[k - 1] < snapshot.completed_pages[k]

\* C28: every snapshot _get_job_snapshot returns, whenever it is taken while
\* the job thread runs, is consistent.
C28_SnapshotConsistent ==
    (reader = "copying" /\ lock = "reader") =>
        ConsistentSnapshot(_get_job_snapshot(job))


\* ------------------------------------------------------ the attempt budget

\* attempts_total as announced when the page records are initialised: the
\* primary profiles, plus 2 in drawing mode and 1 in standard mode when deep
\* verification is on.
AnnouncedAttempts ==
    Len(_build_page_profiles(settings))
    + (IF ~settings.deep_verify THEN 0 ELSE IF settings.drawing_mode THEN 2 ELSE 1)

\* C29: for no page are more OCR attempts made than the attempts_total
\* announced for it, and every published page record has
\* attempts_done <= attempts_total.
C29_AttemptsWithinAnnounced ==
    /\ \A i \in Workers :
            worker[i].pc # "idle" => Len(worker[i].attempts_local) <= AnnouncedAttempts
    /\ \A p \in DOMAIN job.page_details :
            /\ Len(job.page_details[p].attempt_history) <= AnnouncedAttempts
            /\ job.page_details[p].attempts_done <= job.page_details[p].attempts_total

\* What holds of the published records: attempts_done <= attempts_total, and
\* a page that is not yet done carries the announced attempts_total.
PublishedAttemptsDone ==
    \A p \in DOMAIN job.page_details :
        /\ job.page_details[p].attempts_done <= job.page_details[p].attempts_total
        /\ job.page_details[p].status \notin {"done", "error"} =>
                job.page_details[p].attempts_total = AnnouncedAttempts


\* ------------------------------------------------ without deep verification

\* C30: with deep verification off the worker makes no coverage scan, no
\* rescue or secondary rescue attempt and no text injection, the coverage
\* counts and injected counts it reports are 0, and in drawing mode every done
\* page is reported with needs_review, whatever its best score.
C30_NoDeepVerify ==
    ~settings.deep_verify =>
        /\ \A i \in Workers :
                /\ worker[i].pc \notin {"scan", "text_rescue", "rescue_ocr",
                                        "secondary_ocr", "inject_boxes", "inject_lines"}
                /\ worker[i].pc # "idle" =>
                        /\ worker[i].coverage.full_words = 0
                        /\ worker[i].coverage.tile_words = 0
                        /\ worker[i].coverage.combined_words = 0
                        /\ worker[i].coverage.boxes = 0
                        /\ Len(worker[i].attempts_local)
                                = Len(_build_page_profiles(settings))
        /\ \A p \in DOMAIN job.page_details :
                LET rec == job.page_details[p]
                IN  rec.status = "done" =>
                        /\ rec.scan_full_words = 0 /\ rec.scan_tile_words = 0
                        /\ rec.scan_vertical_words = 0 /\ rec.table_rescue_words = 0
                        /\ rec.scan_gain_ratio[1] = 0
                        /\ rec.augmented_words = 0 /\ rec.fallback_lines = 0
                        /\ Len(rec.attempt_history) = Len(_build_page_profiles(settings))
                        /\ settings.drawing_mode => rec.needs_review

\* In drawing mode without deep verification a page is done with a best score
\* of 900 and is reported as needing review.
C30_Witness ==
    /\ settings.drawing_mode /\ ~settings.deep_verify
    /\ \E p \in DOMAIN job.page_details :
            /\ job.page_details[p].status = "done"
            /\ job.page_details[p].best_score >= 700
            /\ job.page_details[p].needs_review

====
